---------------------------- MODULE Spec2Model ----------------------------
(***************************************************************************)
(* A model of pik_intercom: the entity update contract, the                *)
(* merge-by-identity stores, the pagination generator and the call-session *)
(* reconciler of PikIntercomAPI.                                           *)
(*                                                                         *)
(* Conventions.                                                            *)
(*  - A JSON payload is a record with one field per modelled key; a key    *)
(*    the payload does not carry holds ABSENT.  Python's None is NONE and  *)
(*    FALSY stands for any falsy JSON scalar (0, "", false).               *)
(*  - Objects live in a heap (a sequence); a reference is an index of it,  *)
(*    so "the same object" is "the same reference".                        *)
(*  - Every entity class is taken to be instantiable, as create_from_dict  *)
(*    is written.  (ObjectWithUnlocker.unlock is abstract and the ICM      *)
(*    classes do not define it; that defect is outside this model.)        *)
(*  - Each operation group has its own specification; the variables of the *)
(*    other groups stay at their initial values.                           *)
(***************************************************************************)
EXTENDS Integers, Sequences, FiniteSets, TLC

VARIABLES
    \* PikIntercomAPI fields shared by the request engine
    authorization,      \* self.authorization: NONE or a token
    request_counter,    \* self.request_counter
    \* update_from_dict applied to one object
    cls,                \* the class of the object under update
    obj,                \* the object's attributes
    data,               \* the payload of the latest update_from_dict call
    \* iterate_data_list_and_update over one container
    data_cls,           \* the data_cls argument
    container,          \* the container argument: id -> reference
    heap,               \* reference -> attributes
    data_list,          \* the data_list argument of the running generator
    pos,                \* number of items of data_list consumed so far
    yielded,            \* the triples yielded so far by the running generator
    mstate,             \* "idle" | "running" | "returned" | "raised"
    held,               \* id -> the reference an outside holder took at first yield
    latest,             \* id -> the latest payload merged under that id
    \* iterate_paginated_request and its consumer
    max_pages,          \* the max_pages argument (NoLimit for None)
    page_number,        \* the generator's local page_number
    gen,                \* generator state
    requests,           \* the `page` parameter of every request issued
    bodies,             \* the decoded body of every response received
    pages,              \* the pages handed to the consumer
    \* fetch_last_active_session
    pc,                 \* "idle" | "waiting" | "done"
    tasks,              \* backend -> task record
    outcome,            \* what fetch_last_active_session returned or raised
    \* icm_update_intercoms and its per-property tasks
    icm_properties,     \* the keys of self.icm_properties
    farg,               \* the property_id argument of the running call
    fpc,                \* "idle" | "waiting" | "returned" | "raised"
    ftasks,             \* property id -> task record
    fout,               \* what the call returned or raised
    \* unlocking an intercom (ICM: one POST; IoT: one POST per relay)
    upc,                \* "idle" | "awaiting" | "waiting" | "returned" | "raised"
    utasks,             \* relay id -> task record of iot_unlock_relay
    ufailed,            \* the relay ids whose unlock failed, in order of failure
    usent,              \* the unlock requests issued, in order
    uresp,              \* the response to icm_unlock_intercom's request
    uout,               \* what unlock returned or raised
    rpc,                \* make_request: "idle", "awaiting", "returned", "raised"
    rop,                \* the operation that called make_request
    rsent,              \* the HTTP calls issued, in order
    rresp,              \* the response to the last HTTP call
    rout,               \* what make_request returned or raised
    fop,                \* the plural fetch operation under study
    garg,               \* its property_id argument (NoProperty: none)
    gpc,                \* the fetch: "idle", "awaiting", "returned", "raised"
    gret,               \* retrieved_objects of the running call: id -> reference
    gtouched,           \* the ids whose payloads the running call has merged
    gout,               \* what the last call returned or raised
    iot_relays,         \* the relay store: container (id -> reference) and heap
    stores,             \* every store of the client: name -> container and heap
    sop,                \* the operation that ran last on the stores
    \* two fetch operations running as concurrent tasks
    ctasks,             \* task -> operation, argument, position and page loops
    clog,               \* the pages merged so far: <<task, loop, page>>, in order
    cstart,             \* the stores as they were before the tasks ran
    \* authenticate, update_customer_device, set_customer_device_push_token
    customer_devices,   \* self.customer_devices: container and heap
    account,            \* self.account: its id and the payload last merged
    dop,                \* the operation called last
    dpc,                \* "idle" | "sign_in" | "lookup" | "register" | "push" | "returned" | "raised"
    dsent,              \* the requests the call has issued, in order
    dresp,              \* the responses the call has received, in order
    dout,               \* what the call returned or raised
    dread,              \* the last read of an intercom's sip_password
    \* update_single_item_from_request on the ICM intercoms
    item_arg,           \* the item_id argument (NoItem for None)
    item_pc,            \* "idle" | "awaiting" | "returned" | "raised"
    item_sent,          \* the number of requests the call has issued
    item_resp,          \* the response the call received
    item_out,           \* what the call returned or raised
    \* get_last_call_session
    last_call_session,  \* what the last call of get_last_call_session gave
    \* an IotActiveCallSession and its unlock
    target_relay_ids,   \* self.target_relay_ids: () or what is left of the generator
    target_relays_data, \* the ids of data["target_relays"] of the latest payload
    \* requests of concurrent callers on one client
    rcalls,             \* caller -> the request it makes, its position, its counter value
    rlog                \* the counter values handed out, in order

apiVars   == <<authorization, request_counter>>
updVars   == <<cls, obj, data>>
mergeVars == <<data_cls, container, heap, data_list, pos, yielded, mstate, held, latest>>
pageVars  == <<max_pages, page_number, gen, requests, bodies, pages>>
recVars   == <<pc, tasks, outcome>>
fanVars   == <<icm_properties, farg, fpc, ftasks, fout>>
\* The groups of the later specifications, as the earlier ones leave them.
unlockVars == <<upc, utasks, ufailed, usent, uresp, uout>>
reqVars   == <<rpc, rop, rsent, rresp, rout>>
fetchVars == <<fop, garg, gpc, gret, gtouched, gout, iot_relays>>
storeVars == <<stores, sop>>
concVars  == <<ctasks, clog, cstart>>
devVars   == <<customer_devices, account, dop, dpc, dsent, dresp, dout, dread>>
itemVars  == <<item_arg, item_pc, item_sent, item_resp, item_out>>
lastVars  == <<last_call_session>>
actVars   == <<target_relay_ids, target_relays_data>>
cntVars   == <<rcalls, rlog>>
restConc  == <<devVars, itemVars, lastVars, actVars, cntVars>>
restDev   == <<concVars, itemVars, lastVars, actVars, cntVars>>
restItem  == <<concVars, devVars, lastVars, actVars, cntVars>>
restLast  == <<concVars, devVars, itemVars, actVars, cntVars>>
restAct   == <<concVars, devVars, itemVars, lastVars, cntVars>>
restCnt   == <<concVars, devVars, itemVars, lastVars, actVars>>
tailVars  == <<concVars, devVars, itemVars, lastVars, actVars, cntVars>>
laterVars == <<reqVars, fetchVars, storeVars, tailVars>>
extVars   == <<fanVars, unlockVars, laterVars>>
vars      == <<apiVars, updVars, mergeVars, pageVars, recVars, extVars>>

---------------------------------------------------------------------------
(* JSON values *)

NONE   == "None"
ABSENT == "ABSENT"
FALSY  == "FALSY"

\* Bounds of the model.
MaxLen  == 2

\* The entity ids the backends answer with.
Ids == {1, 2}

\* A raw JSON value found under an "id" key.
JInt(i)  == [t |-> "int", v |-> i]
JStr(i)  == [t |-> "numstr", v |-> i]
JBadStr  == [t |-> "badstr", v |-> 0]
JNull    == [t |-> "null", v |-> 0]
JAbsent  == [t |-> "absent", v |-> 0]

\* A nested JSON object (sip_account, geo_unit): absent, falsy (null or {}),
\* or a non-empty dict whose key of interest holds v.
NoBlock    == [b |-> "absent", v |-> ABSENT]
EmptyBlock == [b |-> "empty", v |-> ABSENT]
Dict(v)    == [b |-> "dict", v |-> v]

\* Results of calls that may raise.
Ok(v)    == [ok |-> TRUE, v |-> v, exc |-> NONE]
Raise(e) == [ok |-> FALSE, v |-> 0, exc |-> e]

\* data.get(key) or None
OrNone(v) == IF v \in {ABSENT, NONE, FALSY} THEN NONE ELSE v

\* data.get(key)
Get(v) == IF v = ABSENT THEN NONE ELSE v

\* bool(block) for a nested object
BlockTruthy(blk) == blk.b = "dict"

\* int(data["id"]): KeyError for a missing key, TypeError for null,
\* ValueError for a string that is no number.
PyIntOfKey(raw) ==
    CASE raw.t = "int"    -> Ok(raw.v)
      [] raw.t = "numstr" -> Ok(raw.v)
      [] raw.t = "badstr" -> Raise("ValueError")
      [] raw.t = "null"   -> Raise("TypeError")
      [] raw.t = "absent" -> Raise("KeyError")

\* JSON true, JSON false, and any other truthy scalar (1, "true", ...).
JTrue  == "true"
JFalse == "false"
TRUTHY == "TRUTHY"

\* key in data; data.get(key) for a key a payload may carry beside the keys
\* of MkData; and the payload with such a key added.
HasKey(d, k) == k \in DOMAIN d
GetKey(d, k) == IF HasKey(d, k) THEN d[k] ELSE ABSENT
WithKey(d, k, v) == [f \in DOMAIN d \cup {k} |-> IF f = k THEN v ELSE d[f]]

\* tuple(sorted(s))
RECURSIVE SortedTuple(_)
SortedTuple(S) ==
    IF S = {} THEN << >>
    ELSE LET m == CHOOSE x \in S : \A y \in S : x <= y
         IN  <<m>> \o SortedTuple(S \ {m})

\* A payload.  For IcmCallSession the fields id, created_at and notified_at
\* are those of the "call_session" sub-dict, and cs says whether the payload
\* carries that sub-dict ("dict"), carries null ("null") or lacks the key.
MkData(id, name, entrance, sip, geo, cs, created, notified) ==
    [id |-> id, name |-> name, entrance |-> entrance, sip_account |-> sip,
     geo_unit |-> geo, cs |-> cs, created_at |-> created, notified_at |-> notified]

NoData == MkData(JAbsent, ABSENT, ABSENT, NoBlock, NoBlock, "absent", 0, 0)

---------------------------------------------------------------------------
(* Entity model *)

\* cls(api=api, id=id): a dataclass instance with every field at its default.
NewObject(c, id) ==
    [cls |-> c, id |-> id, source_data |-> NoData, name |-> NONE,
     entrance |-> NONE, sip_user |-> NONE, geo_unit_full_name |-> NONE,
     created_at |-> 0, notified_at |-> 0, property_ids |-> {},
     mode |-> NONE, relay_ids |-> << >>, geo_unit_short_name |-> NONE,
     category |-> NONE, deleted_at |-> NONE, uid |-> NONE,
     sip_password |-> NONE]

\* BaseObject.get_id_from_data, and IcmCallSession's override.
get_id_from_data(c, d) ==
    IF c = "IcmCallSession"
    THEN CASE d.cs = "absent" -> Raise("KeyError")
           [] d.cs = "null"   -> Raise("TypeError")
           [] d.cs = "dict"   -> PyIntOfKey(d.id)
    ELSE PyIntOfKey(d.id)

\* The nested sip_account block: assigned only when the block is truthy.
\* IcmIntercom reads it raw; CustomerDevice reads it with "or None";
\* IotIntercom reads sip_account.settings raw (the block stands for it).
sip_user_from_dict(o, d) ==
    IF BlockTruthy(d.sip_account)
    THEN IF o.cls = "CustomerDevice" THEN OrNone(d.sip_account.v)
                                     ELSE Get(d.sip_account.v)
    ELSE o.sip_user

\* CustomerDevice: sip_account_data.get("password") or None, assigned only
\* when the block is truthy.
sip_password_from_dict(o, d) ==
    IF BlockTruthy(d.sip_account) THEN OrNone(GetKey(d.sip_account, "password"))
                                  ELSE o.sip_password

\* IotIntercom: the geo_unit block, assigned only when the block is truthy.
IotIntercom_geo_unit_from_dict(o, d) ==
    IF BlockTruthy(d.geo_unit) THEN OrNone(d.geo_unit.v) ELSE o.geo_unit_full_name

\* IotIntercom: geo_unit_data.get("short_name") or None, under the same test.
IotIntercom_short_name_from_dict(o, d) ==
    IF BlockTruthy(d.geo_unit) THEN OrNone(GetKey(d.geo_unit, "short_name"))
                               ELSE o.geo_unit_short_name

\* IotRelay: geo_unit_data = data.get("geo_unit") or {}; always assigned.
IotRelay_geo_unit_from_dict(o, d) ==
    IF BlockTruthy(d.geo_unit) THEN OrNone(d.geo_unit.v) ELSE NONE

\* IotIntercom: relay_ids is the sorted tuple of the distinct ids of the
\* "relays" list (the key holds a list when the payload carries it); an
\* entry whose id raises (LookupError, ValueError, TypeError) is left out.
relay_ids_from_dict(d) ==
    IF ~HasKey(d, "relays") THEN << >>
    ELSE SortedTuple({PyIntOfKey(d.relays[k].id).v :
                        k \in {j \in 1..Len(d.relays) : PyIntOfKey(d.relays[j].id).ok}})

\* BaseCallSession.update_from_dict: each timestamp parsed or None (0).
BaseCallSession_update_from_dict(o, d) ==
    [o EXCEPT !.source_data = d, !.created_at = d.created_at,
              !.notified_at = d.notified_at,
              !.deleted_at = OrNone(GetKey(d, "deleted_at"))]

\* IotCallSession.update_from_dict: created_at falls back to notified_at.
IotCallSession_update_from_dict(o, d) ==
    LET s == [BaseCallSession_update_from_dict(o, d) EXCEPT
                 !.geo_unit_short_name = OrNone(GetKey(d, "geo_unit_short_name"))]
    IN  IF s.created_at = 0 /\ s.notified_at # 0
        THEN [s EXCEPT !.created_at = s.notified_at]
        ELSE s

\* IcmCallSession.update_from_dict: call_session_data = data.get("call_session") or {}
IcmCallSession_update_from_dict(o, d) ==
    IF d.cs = "dict"
    THEN BaseCallSession_update_from_dict(o, d)
    ELSE BaseCallSession_update_from_dict(o, NoData)

\* update_from_dict of each class.
update_from_dict(o, d) ==
    CASE o.cls = "IcmIntercom" ->
            [o EXCEPT !.source_data = d, !.name = OrNone(d.name),
                      !.entrance = Get(d.entrance),
                      !.mode = OrNone(GetKey(d, "mode")),
                      !.sip_user = sip_user_from_dict(o, d)]
      [] o.cls = "IotIntercom" ->
            [o EXCEPT !.source_data = d, !.name = OrNone(d.name),
                      !.relay_ids = relay_ids_from_dict(d),
                      !.sip_user = sip_user_from_dict(o, d),
                      !.geo_unit_full_name = IotIntercom_geo_unit_from_dict(o, d),
                      !.geo_unit_short_name = IotIntercom_short_name_from_dict(o, d)]
      [] o.cls = "IotRelay" ->
            [o EXCEPT !.source_data = d, !.name = OrNone(d.name),
                      !.geo_unit_full_name = IotRelay_geo_unit_from_dict(o, d)]
      [] o.cls = "CustomerDevice" ->
            [o EXCEPT !.source_data = d, !.name = OrNone(d.name),
                      !.deleted_at = OrNone(GetKey(d, "deleted_at")),
                      !.sip_user = sip_user_from_dict(o, d),
                      !.sip_password = sip_password_from_dict(o, d)]
      [] o.cls = "IotCamera" ->
            [o EXCEPT !.source_data = d, !.name = OrNone(d.name),
                      !.geo_unit_short_name = OrNone(GetKey(d, "geo_unit_short_name"))]
      [] o.cls = "IotMeter" ->
            [o EXCEPT !.source_data = d,
                      !.geo_unit_short_name = OrNone(GetKey(d, "geo_unit_short_name"))]
      [] o.cls = "IcmProperty" -> [o EXCEPT !.source_data = d]
      [] o.cls = "IcmCallSession" -> IcmCallSession_update_from_dict(o, d)
      [] o.cls = "IcmActiveCallSession" -> BaseCallSession_update_from_dict(o, d)
      [] o.cls = "IotActiveCallSession" -> IotCallSession_update_from_dict(o, d)
      [] o.cls = "IotCallSession" -> IotCallSession_update_from_dict(o, d)

\* BaseObject.create_from_dict: a new instance under get_id_from_data(data),
\* then update_from_dict(data).  Raises what get_id_from_data raises.
create_from_dict(c, d) ==
    LET i == get_id_from_data(c, d)
    IN  IF i.ok THEN Ok(update_from_dict(NewObject(c, i.v), d)) ELSE i

\* What a coroutine ends with: a session object, None, or an exception
\* (with the HTTP status for a ClientResponseError); "pending" before that.
NoObject      == NewObject(NONE, 0)
RetSession(o) == [k |-> "session", s |-> o, exc |-> NONE, status |-> 0]
RetNone       == [k |-> "none", s |-> NoObject, exc |-> NONE, status |-> 0]
Fail(e, st)   == [k |-> "exc", s |-> NoObject, exc |-> e, status |-> st]
NoResult      == [k |-> "pending", s |-> NoObject, exc |-> NONE, status |-> 0]

\* property_id: Optional[int] = None
NoProperty == 0

\* What an unlock ends with; "pending" while it runs.
UPending     == [k |-> "pending", exc |-> NONE, msg |-> NONE]
UOk          == [k |-> "ok", exc |-> NONE, msg |-> NONE]
URaise(e, m) == [k |-> "exc", exc |-> e, msg |-> m]

\* What make_request ends with: the decoded body and the response headers,
\* or an exception (with the HTTP status when it carries one).
NoValue            == [k |-> "unset", c |-> NONE, d |-> NoData]
NoHeaders          == [authorization |-> NONE]
ReqPending         == [k |-> "pending", v |-> NoValue, headers |-> NoHeaders,
                       exc |-> NONE, msg |-> NONE, status |-> 0]
ReqReturn(v, h)    == [k |-> "result", v |-> v, headers |-> h,
                       exc |-> NONE, msg |-> NONE, status |-> 0]
ReqRaise(e, m, st) == [k |-> "exc", v |-> NoValue, headers |-> NoHeaders,
                       exc |-> e, msg |-> m, status |-> st]

\* What icm_update_intercoms ends with: the retrieved_objects mapping
\* (id -> reference) or an exception; "pending" while it runs.
FanPending       == [k |-> "pending", ids |-> << >>, exc |-> NONE, status |-> 0]
FanReturn(ids)   == [k |-> "result", ids |-> ids, exc |-> NONE, status |-> 0]
FanRaise(e, st)  == [k |-> "exc", ids |-> << >>, exc |-> e, status |-> st]

---------------------------------------------------------------------------
(* Initial values of each group *)

InitApi   == authorization = "token" /\ request_counter = 0
InitUpd   == cls = NONE /\ obj = NewObject(NONE, 0) /\ data = NoData
InitMerge == /\ data_cls = NONE /\ container = << >> /\ heap = << >>
             /\ data_list = << >> /\ pos = 0 /\ yielded = << >>
             /\ mstate = "idle" /\ held = << >> /\ latest = << >>
InitPage  == /\ max_pages = 0 /\ page_number = 0 /\ gen = "none"
             /\ requests = << >> /\ bodies = << >> /\ pages = << >>
InitRec   == pc = "idle" /\ tasks = << >> /\ outcome = NoResult
InitFan   == /\ icm_properties = {} /\ farg = NoProperty /\ fpc = "idle"
             /\ ftasks = << >> /\ fout = FanPending
InitUnlock == /\ upc = "idle" /\ utasks = << >> /\ ufailed = << >>
              /\ usent = << >> /\ uresp = NONE /\ uout = UPending
InitReq   == /\ rpc = "idle" /\ rop = NONE /\ rsent = << >>
             /\ rresp = NONE /\ rout = ReqPending
InitFetched == /\ fop = NONE /\ garg = NoProperty /\ gpc = "idle"
               /\ gret = << >> /\ gtouched = {} /\ gout = FanPending
               /\ iot_relays = [container |-> << >>, heap |-> << >>]
InitStored == stores = << >> /\ sop = NONE
InitConc == ctasks = << >> /\ clog = << >> /\ cstart = << >>
InitDev  == /\ customer_devices = << >> /\ account = NONE /\ dop = NONE
            /\ dpc = "idle" /\ dsent = << >> /\ dresp = << >> /\ dout = NONE
            /\ dread = NONE
InitItem == /\ item_arg = 0 /\ item_pc = "idle" /\ item_sent = 0
            /\ item_resp = NONE /\ item_out = NONE
InitLast == last_call_session = NONE
InitAct  == target_relay_ids = NONE /\ target_relays_data = << >>
InitCnt  == rcalls = << >> /\ rlog = << >>
InitRestConc == InitDev /\ InitItem /\ InitLast /\ InitAct /\ InitCnt
InitRestDev  == InitConc /\ InitItem /\ InitLast /\ InitAct /\ InitCnt
InitRestItem == InitConc /\ InitDev /\ InitLast /\ InitAct /\ InitCnt
InitRestLast == InitConc /\ InitDev /\ InitItem /\ InitAct /\ InitCnt
InitRestAct  == InitConc /\ InitDev /\ InitItem /\ InitLast /\ InitCnt
InitRestCnt  == InitConc /\ InitDev /\ InitItem /\ InitLast /\ InitAct
InitTail == InitConc /\ InitDev /\ InitItem /\ InitLast /\ InitAct /\ InitCnt
InitLater == InitReq /\ InitFetched /\ InitStored /\ InitTail
InitExt   == InitFan /\ InitUnlock /\ InitLater

---------------------------------------------------------------------------
(* update_from_dict on one object (specification SpecUpdate) *)

UpdClasses == {"IcmIntercom", "IotIntercom", "IotRelay", "CustomerDevice"}
Vals       == {ABSENT, FALSY, "a", "b"}
Blocks     == {NoBlock, EmptyBlock, Dict(ABSENT), Dict("a"), Dict("b")}

\* The payloads update_from_dict is applied to, per class: every combination
\* of the keys the class reads.
UpdPayloads(c) ==
    CASE c = "IcmIntercom" ->
            {MkData(JInt(1), n, e, s, NoBlock, "absent", 0, 0) :
                n \in Vals, e \in Vals, s \in Blocks}
      [] c = "IotIntercom" ->
            {MkData(JInt(1), n, ABSENT, s, g, "absent", 0, 0) :
                n \in Vals, s \in Blocks, g \in Blocks}
      [] c = "IotRelay" ->
            {MkData(JInt(1), n, ABSENT, NoBlock, g, "absent", 0, 0) :
                n \in Vals, g \in Blocks}
      [] c = "CustomerDevice" ->
            {MkData(JInt(1), n, ABSENT, s, NoBlock, "absent", 0, 0) :
                n \in Vals, s \in Blocks}

InitUpdate ==
    /\ InitApi /\ InitMerge /\ InitPage /\ InitRec /\ InitExt
    /\ cls \in UpdClasses
    /\ obj = NewObject(cls, 1)
    /\ data = NoData

\* obj.update_from_dict(d)
UpdateFromDict ==
    \E d \in UpdPayloads(cls) :
        /\ obj' = update_from_dict(obj, d)
        /\ data' = d
        /\ UNCHANGED <<cls, apiVars, mergeVars, pageVars, recVars, extVars>>

NextUpdate == UpdateFromDict

SpecUpdate == InitUpdate /\ [][NextUpdate]_vars

\* The classes that read each nested block.
ReadsSipAccount(c) == c \in {"IcmIntercom", "IotIntercom", "CustomerDevice"}
ReadsGeoUnit(c)    == c \in {"IotIntercom", "IotRelay"}

\* C3: after update_from_dict(payload), every attribute derived from a key
\* the payload does not carry is unset, whatever it held before; this
\* includes the attributes read from the nested sip_account and geo_unit
\* blocks.
C3_AbsentKeyUnsetsAttribute ==
    data # NoData =>
        /\ data.name = ABSENT => obj.name = NONE
        /\ data.entrance = ABSENT => obj.entrance = NONE
        /\ (ReadsSipAccount(cls) /\ data.sip_account = NoBlock) => obj.sip_user = NONE
        /\ (ReadsGeoUnit(cls) /\ data.geo_unit = NoBlock) => obj.geo_unit_full_name = NONE

---------------------------------------------------------------------------
(* iterate_data_list_and_update over one container (specification SpecMerge) *)

MergeClasses == {"IcmIntercom", "IcmCallSession"}

\* Raw ids offered to the merge: every id as a JSON integer, id 1 also as a
\* numeric string, a string that is no number and a missing key.  (A null
\* "call_session" gives the TypeError case.)
RawIds == {JInt(i) : i \in Ids} \cup {JStr(1), JBadStr, JAbsent}

\* The payloads offered to the merge, per class.
MergePayloads(c) ==
    CASE c = "IcmIntercom" ->
            {MkData(i, n, ABSENT, s, NoBlock, "absent", 0, 0) :
                i \in RawIds, n \in {"a", "b"}, s \in {NoBlock, Dict("u")}}
      [] c = "IcmCallSession" ->
            {MkData(i, ABSENT, ABSENT, NoBlock, NoBlock, "dict", t, 0) :
                i \in RawIds, t \in {1, 2}}
            \cup {MkData(JAbsent, ABSENT, ABSENT, NoBlock, NoBlock, k, 0, 0) :
                k \in {"absent", "null"}}

DataLists(c) == UNION {[1..n -> MergePayloads(c)] : n \in 0..MaxLen}

InitMergeSpec ==
    /\ InitApi /\ InitUpd /\ InitPage /\ InitRec /\ InitExt
    /\ data_cls \in MergeClasses
    /\ container = << >> /\ heap = << >>
    /\ data_list = << >> /\ pos = 0 /\ yielded = << >>
    /\ mstate = "idle" /\ held = << >> /\ latest = << >>

\* except (TypeError, ValueError, KeyError): continue
CaughtKeyErrorOnly(exc) == exc = "KeyError"
Caught(exc) == exc \in {"TypeError", "ValueError", "KeyError"}

\* The item the loop is at, and its extracted id.
CurrentItem == data_list[pos + 1]
CurrentId   == get_id_from_data(data_cls, CurrentItem)

\* What the yield hands out and what an outside holder records of it.
Yield(i, r, d) ==
    /\ yielded' = Append(yielded, [id |-> i, ref |-> r, data |-> d])
    /\ held' = IF i \in DOMAIN held THEN held ELSE (i :> r) @@ held
    /\ latest' = (i :> d) @@ latest

\* A caller hands a container, a data_list and a data_cls to the generator.
\* "if not data_list: return" ends it at once for an empty list.
StartMerge ==
    /\ mstate = "idle"
    /\ \E dl \in DataLists(data_cls) :
        /\ data_list' = dl
        /\ mstate' = IF dl = << >> THEN "returned" ELSE "running"
    /\ pos' = 0
    /\ yielded' = << >>
    /\ UNCHANGED <<data_cls, container, heap, held, latest>>
    /\ UNCHANGED <<apiVars, updVars, pageVars, recVars, extVars>>

\* get_id_from_data raised: the item is skipped when the exception is one of
\* the three caught, and the generator dies with it otherwise.
MergeBadItem ==
    /\ mstate = "running" /\ pos < Len(data_list)
    /\ ~CurrentId.ok
    /\ IF Caught(CurrentId.exc)
       THEN pos' = pos + 1 /\ mstate' = mstate
       ELSE pos' = pos /\ mstate' = "raised"
    /\ UNCHANGED <<data_cls, container, heap, data_list, yielded, held, latest>>
    /\ UNCHANGED <<apiVars, updVars, pageVars, recVars, extVars>>

\* container[obj_id] raised KeyError: create, insert, yield.
MergeCreate ==
    /\ mstate = "running" /\ pos < Len(data_list)
    /\ CurrentId.ok
    /\ CurrentId.v \notin DOMAIN container
    /\ heap' = Append(heap, create_from_dict(data_cls, CurrentItem).v)
    /\ container' = (CurrentId.v :> Len(heap) + 1) @@ container
    /\ Yield(CurrentId.v, Len(heap) + 1, CurrentItem)
    /\ pos' = pos + 1
    /\ UNCHANGED <<data_cls, data_list, mstate>>
    /\ UNCHANGED <<apiVars, updVars, pageVars, recVars, extVars>>

\* A replacement of the stored object instead of an in-place update.
MergeReplace ==
    /\ mstate = "running" /\ pos < Len(data_list)
    /\ CurrentId.ok
    /\ CurrentId.v \in DOMAIN container
    /\ heap' = Append(heap, create_from_dict(data_cls, CurrentItem).v)
    /\ container' = (CurrentId.v :> Len(heap) + 1) @@ container
    /\ Yield(CurrentId.v, Len(heap) + 1, CurrentItem)
    /\ pos' = pos + 1
    /\ UNCHANGED <<data_cls, data_list, mstate>>
    /\ UNCHANGED <<apiVars, updVars, pageVars, recVars, extVars>>

\* container[obj_id] found: obj.update_from_dict(data), yield.
MergeUpdate ==
    /\ mstate = "running" /\ pos < Len(data_list)
    /\ CurrentId.ok
    /\ CurrentId.v \in DOMAIN container
    /\ heap' = [heap EXCEPT ![container[CurrentId.v]] = update_from_dict(@, CurrentItem)]
    /\ Yield(CurrentId.v, container[CurrentId.v], CurrentItem)
    /\ pos' = pos + 1
    /\ UNCHANGED <<data_cls, container, data_list, mstate>>
    /\ UNCHANGED <<apiVars, updVars, pageVars, recVars, extVars>>

\* The for loop is exhausted: the generator returns.
MergeReturn ==
    /\ mstate = "running" /\ pos = Len(data_list)
    /\ mstate' = "returned"
    /\ UNCHANGED <<data_cls, container, heap, data_list, pos, yielded, held, latest>>
    /\ UNCHANGED <<apiVars, updVars, pageVars, recVars, extVars>>

\* The caller is done with the generator and drops it.
MergeDrop ==
    /\ mstate = "returned"
    /\ mstate' = "idle"
    /\ data_list' = << >> /\ pos' = 0 /\ yielded' = << >>
    /\ UNCHANGED <<data_cls, container, heap, held, latest>>
    /\ UNCHANGED <<apiVars, updVars, pageVars, recVars, extVars>>

NextMerge ==
    \/ StartMerge
    \/ MergeDrop
    \/ MergeBadItem
    \/ MergeCreate
    \/ MergeUpdate
    \/ MergeReturn

SpecMerge == InitMergeSpec /\ [][NextMerge]_vars

\* The items whose identity extraction succeeds.
GoodItem(d) == get_id_from_data(data_cls, d).ok

C2_BadItemSkipped ==
    /\ mstate # "raised"
    /\ mstate = "returned" => pos = Len(data_list)
    /\ LET good == SelectSeq(SubSeq(data_list, 1, pos), GoodItem)
       IN  /\ Len(yielded) = Len(good)
           /\ \A j \in 1..Len(yielded) :
                /\ yielded[j].data = good[j]
                /\ yielded[j].id = get_id_from_data(data_cls, good[j]).v
                /\ yielded[j].id \in DOMAIN container
                /\ yielded[j].ref = container[yielded[j].id]
                /\ heap[yielded[j].ref].id = yielded[j].id

\* C2 witness: a list whose first item is bad and whose second is good has
\* been consumed to its end, and the good item was yielded.
C2_BadThenGoodMerged ==
    /\ mstate = "returned"
    /\ Len(data_list) = 2
    /\ ~GoodItem(data_list[1])
    /\ GoodItem(data_list[2])
    /\ Len(yielded) = 1
    /\ yielded[1].data = data_list[2]

---------------------------------------------------------------------------
(* make_request: what one HTTP response becomes *)

\* A response body: k is "notjson" (text that does not parse, sent as
\* application/json), "blank" (no text at all, or only white space),
\* "wrongtype" (a page that is not JSON, sent under a Content-Type other than
\* application/json), "error" (a JSON object with a truthy error field),
\* "empty" (a falsy body: [] or {}), "list" (a non-empty page, c names its
\* content), "object" (a JSON object, d holds its keys) or "null" (None).
Body(k, c, d) == [k |-> k, c |-> c, d |-> d]
NotJson    == Body("notjson", NONE, NoData)
BlankBody  == Body("blank", NONE, NoData)
WrongType  == Body("wrongtype", NONE, NoData)
NullBody   == Body("null", NONE, NoData)
ErrorBody  == Body("error", NONE, NoData)
EmptyBody  == Body("empty", NONE, NoData)
ListBody(c)   == Body("list", c, NoData)
ObjectBody(d) == Body("object", NONE, d)

Response(status, body) == [status |-> status, body |-> body]

\* raise_for_status=True, request.json(), the error envelope check: the
\* tail of make_request once the request has been issued.
\* await request.json() of aiohttp's ClientResponse: a Content-Type other
\* than application/json raises ContentTypeError (a ClientResponseError), a
\* blank body decodes to None, text that does not parse raises
\* json.JSONDecodeError, anything else is the decoded value.
request_json(b) ==
    CASE b.k = "wrongtype" -> Raise("ContentTypeError")
      [] b.k = "blank"     -> Ok(NullBody)
      [] b.k = "notjson"   -> Raise("JSONDecodeError")
      [] OTHER             -> Ok(b)

\* isinstance(resp_data, dict) and resp_data.get("error")
has_error(v) ==
    \/ v.k = "error"
    \/ v.k = "object" /\ GetKey(v.d, "error") \notin {ABSENT, NONE, FALSY, JFalse}

\* raise_for_status=True, request.json(), the error envelope check: the
\* tail of make_request once the request has been issued.  Only
\* json.JSONDecodeError is caught (and becomes MalformedDataError).
make_request_result(resp) ==
    IF resp.status \notin 200..299
    THEN [ok |-> FALSE, v |-> resp.status, exc |-> "ClientResponseError"]
    ELSE LET j == request_json(resp.body)
         IN  IF ~j.ok
             THEN IF j.exc = "JSONDecodeError" THEN Raise("MalformedDataError")
                  ELSE [ok |-> FALSE, v |-> resp.status, exc |-> j.exc]
             ELSE IF has_error(j.v) THEN Raise("ServerResponseError")
             ELSE Ok(j.v)

\* if authenticated: if not self.is_authenticated: raise
is_authenticated == authorization # NONE

---------------------------------------------------------------------------
(* iterate_paginated_request and its consumer (specification SpecPage) *)

\* max_pages=None
NoLimit == -1

\* Bound: the largest ceiling, and the page after which an unlimited
\* pagination is answered with an empty page or a failure.
MaxPages == 3

PageContents == {"p", "q"}

PageResponses ==
    {Response(200, ListBody(c)) : c \in PageContents}
    \cup {Response(200, EmptyBody), Response(200, NotJson), Response(500, EmptyBody)}

InitPageSpec ==
    /\ InitUpd /\ InitMerge /\ InitRec /\ InitExt
    /\ authorization \in {NONE, "token"}
    /\ request_counter = 0
    /\ max_pages \in {NoLimit} \cup 0..MaxPages
    /\ page_number = 0
    /\ gen = "created"
    /\ requests = << >> /\ bodies = << >> /\ pages = << >>

\* while max_pages is None or (page_number < max_pages)
MayRequestOffByOne == max_pages = NoLimit \/ page_number <= max_pages
MayRequest == max_pages = NoLimit \/ page_number < max_pages

\* The consumer asks for the next page: the generator runs from its start or
\* from its yield to the await of make_request, or ends.
AskNext ==
    /\ gen \in {"created", "yielded"}
    /\ IF MayRequest
       THEN /\ page_number' = page_number + 1
            /\ IF is_authenticated
               THEN /\ request_counter' = request_counter + 1
                    /\ requests' = Append(requests, page_number + 1)
                    /\ gen' = "requesting"
               ELSE /\ gen' = "raised"
                    /\ UNCHANGED <<request_counter, requests>>
       ELSE /\ gen' = "exhausted"
            /\ UNCHANGED <<page_number, request_counter, requests>>
    /\ UNCHANGED <<authorization, max_pages, bodies, pages>>
    /\ UNCHANGED <<updVars, mergeVars, recVars, extVars>>

\* A generator that issues the next request before it hands the page over.
YieldPagePrefetch(b) ==
    /\ pages' = Append(pages, b)
    /\ requests' = Append(requests, page_number + 1)
    /\ gen' = "yielded"

\* yield resp_data
YieldPage(b) ==
    /\ pages' = Append(pages, b)
    /\ requests' = requests
    /\ gen' = "yielded"

\* The awaited make_request ends: an exception goes to the consumer, an
\* empty body breaks the loop, any other body is yielded.
Respond ==
    /\ gen = "requesting"
    /\ \E resp \in PageResponses :
        /\ (resp.status = 200 /\ resp.body.k = "list")
              => (max_pages # NoLimit \/ page_number < MaxPages)
        /\ bodies' = Append(bodies, resp)
        /\ LET r == make_request_result(resp)
           IN  IF ~r.ok
               THEN gen' = "raised" /\ UNCHANGED <<pages, requests>>
               ELSE IF r.v.k = "empty"
               THEN gen' = "exhausted" /\ UNCHANGED <<pages, requests>>
               ELSE YieldPage(r.v)
    /\ UNCHANGED <<authorization, request_counter, max_pages, page_number>>
    /\ UNCHANGED <<updVars, mergeVars, recVars, extVars>>

\* The consumer leaves its loop (break or exception) holding a page: the
\* generator is never resumed.
Abandon ==
    /\ gen = "yielded"
    /\ gen' = "closed"
    /\ UNCHANGED <<authorization, request_counter, max_pages, page_number,
                   requests, bodies, pages>>
    /\ UNCHANGED <<updVars, mergeVars, recVars, extVars>>

NextPage ==
    \/ AskNext
    \/ Respond
    \/ Abandon

SpecPage == InitPageSpec /\ [][NextPage]_vars

\* A response that carries a non-empty page.
IsPage(resp) == make_request_result(resp).ok /\ resp.body.k # "empty"

\* C4: requests carry page = 1, 2, 3, ...; no request follows an empty page
\* and no more than max_pages are issued; the pages yielded are the
\* non-empty pages received, in order; and the generator ends exactly on
\* the first empty page or, every page being non-empty, after max_pages
\* requests.
C4_PaginationStops ==
    /\ \A i \in 1..Len(requests) : requests[i] = i
    /\ max_pages # NoLimit => Len(requests) <= max_pages
    /\ \A i \in 1..(Len(bodies) - 1) : IsPage(bodies[i])
    /\ Len(pages) = Cardinality({i \in 1..Len(bodies) : IsPage(bodies[i])})
    /\ \A i \in 1..Len(pages) : pages[i] = bodies[i].body
    /\ gen = "exhausted" =>
          \/ /\ Len(bodies) > 0
             /\ bodies[Len(bodies)] = Response(200, EmptyBody)
             /\ Len(requests) = Len(bodies)
          \/ /\ max_pages # NoLimit
             /\ Len(requests) = max_pages
             /\ Len(pages) = max_pages

\* C4 witness: with max_pages = 2 and two non-empty pages the generator has
\* ended after exactly two requests.
C4_CeilingReached ==
    /\ gen = "exhausted"
    /\ max_pages = 2
    /\ requests = <<1, 2>>
    /\ Len(pages) = 2

\* C5: the request for page k+1 is issued only after the consumer has taken
\* page k and asked for more; while the consumer holds page k, and for ever
\* after it abandoned the sequence there, no request beyond k was issued.
C5_PaginationIsLazy ==
    /\ Len(requests) <= Len(pages) + 1
    /\ gen \in {"yielded", "closed"} => Len(requests) = Len(pages)
    /\ gen = "requesting" => Len(requests) = Len(pages) + 1

\* C5 witness: the consumer abandoned the sequence after page 1 although
\* more pages were allowed, and one request was issued in all.
C5_AbandonedAfterFirstPage ==
    /\ gen = "closed"
    /\ max_pages \in {NoLimit, 3}
    /\ Len(pages) = 1
    /\ requests = <<1>>

---------------------------------------------------------------------------
(* fetch_last_active_session (specification SpecReconcile) *)

\* Bound: the latest timestamp a session payload carries (0 is "no value").
MaxTime == 2

Backends == {"iot", "icm"}

\* The payload of an active session: an id and the two timestamps.
SessionPayloads ==
    {MkData(JInt(1), ABSENT, ABSENT, NoBlock, NoBlock, "absent", c, n) :
        c \in 0..MaxTime, n \in 0..MaxTime}

\* What an active-session endpoint may answer.
RecResponses ==
    {Response(404, EmptyBody), Response(500, EmptyBody),
     Response(200, NotJson), Response(200, ErrorBody),
     Response(200, EmptyBody), Response(200, ObjectBody(NoData))}
    \cup {Response(200, ObjectBody(d)) : d \in SessionPayloads}

NoResponse == Response(0, EmptyBody)

\* except aiohttp.ClientResponseError as exc: if exc.status == 404: return None
NotFoundIsNone(r) ==
    IF r.exc = "ClientResponseError" /\ r.v = 404
    THEN RetNone
    ELSE Fail(r.exc, IF r.exc = "ClientResponseError" THEN r.v ELSE 0)

\* cls.create_from_dict(self, resp_data) as the coroutine's return value.
ReturnCreated(c, d) ==
    LET o == create_from_dict(c, d)
    IN  IF o.ok THEN RetSession(o.v) ELSE Fail(o.exc, 0)

\* resp_data.get("id"), tested for truth
IdTruthy(raw) == raw.t \in {"int", "numstr", "badstr"}

\* icm_fetch_last_active_session, from the response on.
icm_fetch_last_active_session(resp) ==
    LET r == make_request_result(resp)
    IN  IF ~r.ok THEN NotFoundIsNone(r)
        ELSE IF IdTruthy(r.v.d.id)
        THEN ReturnCreated("IcmActiveCallSession", r.v.d)
        ELSE RetNone

\* iot_fetch_last_active_session, from the response on.
iot_fetch_last_active_session(resp) ==
    LET r == make_request_result(resp)
    IN  IF ~r.ok THEN NotFoundIsNone(r)
        ELSE ReturnCreated("IotActiveCallSession", r.v.d)

fetch_last_active(b, resp) ==
    IF b = "iot" THEN iot_fetch_last_active_session(resp)
                 ELSE icm_fetch_last_active_session(resp)

\* Task.result(): the return value, or the task's exception raised.
task_result(res) ==
    CASE res.k = "exc"     -> Raise(res.exc)
      [] res.k = "pending" -> Raise("InvalidStateError")
      [] OTHER             -> Ok(res)

\* if other_call_session.created_at > call_session.created_at
IcmIsNewerOrEqual(icm, iot) == icm.created_at >= iot.created_at
IcmIsNewer(icm, iot) == icm.created_at > iot.created_at

\* Both sides returned a session: the ICM one when it is newer, else the
\* IoT one; comparing with an unset created_at raises TypeError.
BothSessions(iot, icm) ==
    IF iot.s.created_at = 0 \/ icm.s.created_at = 0
    THEN Fail("TypeError", 0)
    ELSE IF IcmIsNewer(icm.s, iot.s) THEN icm ELSE iot

\* elif call_session is None: the ICM session if there is one, else None.
IotIsNoneDropsIcm(icm) == RetNone
IotIsNone(icm) == IF icm.k = "session" THEN icm ELSE RetNone

\* The body of fetch_last_active_session after asyncio.wait returned.  The
\* two Task.result() calls come first and raise a failed task's exception,
\* so the isinstance(call_session, BaseException) branch is never taken.
reconcile(iot, icm) ==
    IF ~task_result(iot).ok THEN Fail(task_result(iot).exc, iot.status)
    ELSE IF ~task_result(icm).ok THEN Fail(task_result(icm).exc, icm.status)
    ELSE IF iot.k = "session" /\ icm.k = "session" THEN BothSessions(iot, icm)
    ELSE IF iot.k = "none" THEN IotIsNone(icm)
    ELSE iot

NewTask == [st |-> "created", resp |-> NoResponse, res |-> NoResult]

InitReconcile ==
    /\ InitUpd /\ InitMerge /\ InitPage /\ InitExt
    /\ authorization \in {NONE, "token"}
    /\ request_counter = 0
    /\ pc = "idle"
    /\ tasks = [b \in Backends |-> NewTask]
    /\ outcome = NoResult

\* create_task for both coroutines, then await asyncio.wait(tasks, ...).
Fetch ==
    /\ pc = "idle"
    /\ pc' = "waiting"
    /\ tasks' = [b \in Backends |-> NewTask]
    /\ UNCHANGED <<outcome, apiVars>>
    /\ UNCHANGED <<updVars, mergeVars, pageVars, extVars>>

\* A task runs from its start to the await inside make_request (or to the
\* "API not authenticated" exception).  Tasks start in creation order.
TaskStart ==
    /\ pc = "waiting"
    /\ \E b \in Backends :
        /\ tasks[b].st = "created"
        /\ b = "icm" => tasks["iot"].st # "created"
        /\ IF is_authenticated
           THEN /\ request_counter' = request_counter + 1
                /\ tasks' = [tasks EXCEPT ![b].st = "awaiting"]
           ELSE /\ request_counter' = request_counter
                /\ tasks' = [tasks EXCEPT ![b].st = "done",
                                          ![b].res = Fail("PikIntercomException", 0)]
    /\ UNCHANGED <<pc, outcome, authorization>>
    /\ UNCHANGED <<updVars, mergeVars, pageVars, extVars>>

\* The response of one backend arrives and its task runs to its end.
TaskRespond ==
    /\ pc = "waiting"
    /\ \A b \in Backends : tasks[b].st # "created"
    /\ \E b \in Backends, resp \in RecResponses :
        /\ tasks[b].st = "awaiting"
        /\ tasks' = [tasks EXCEPT ![b].st = "done", ![b].resp = resp,
                                  ![b].res = fetch_last_active(b, resp)]
    /\ UNCHANGED <<pc, outcome, apiVars>>
    /\ UNCHANGED <<updVars, mergeVars, pageVars, extVars>>

\* asyncio.wait(tasks, return_when=asyncio.ALL_COMPLETED) returns.
WaitFirstException ==
    \/ \A b \in Backends : tasks[b].st = "done"
    \/ \E b \in Backends : tasks[b].st = "done" /\ tasks[b].res.k = "exc"
WaitReturns == \A b \in Backends : tasks[b].st = "done"

\* fetch_last_active_session resumes after the wait and returns or raises.
Decide ==
    /\ pc = "waiting"
    /\ \A b \in Backends : tasks[b].st # "created"
    /\ WaitReturns
    /\ outcome' = reconcile(tasks["iot"].res, tasks["icm"].res)
    /\ pc' = "done"
    /\ UNCHANGED <<tasks, apiVars>>
    /\ UNCHANGED <<updVars, mergeVars, pageVars, extVars>>

NextReconcile ==
    \/ Fetch
    \/ TaskStart
    \/ TaskRespond
    \/ Decide

SpecReconcile == InitReconcile /\ [][NextReconcile]_vars

\* The two tasks' results, as the reconciler names them.
IotRes == tasks["iot"].res
IcmRes == tasks["icm"].res

Failed(res)    == res.k = "exc"
Succeeded(res) == res.k \in {"session", "none"}

\* C6: when both backends returned a session (each with a creation
\* timestamp), the result is the session created strictly later, and the
\* IoT session when the two timestamps are equal.
C6_LaterSessionWins ==
    (/\ pc = "done"
     /\ IotRes.k = "session" /\ IcmRes.k = "session"
     /\ IotRes.s.created_at # 0 /\ IcmRes.s.created_at # 0)
    => /\ outcome.k = "session"
       /\ IcmRes.s.created_at > IotRes.s.created_at
            => outcome.s = IcmRes.s /\ outcome.s.cls = "IcmActiveCallSession"
       /\ IotRes.s.created_at > IcmRes.s.created_at
            => outcome.s = IotRes.s /\ outcome.s.cls = "IotActiveCallSession"
       /\ IotRes.s.created_at = IcmRes.s.created_at
            => outcome.s = IotRes.s /\ outcome.s.cls = "IotActiveCallSession"

\* C6 witness: both backends returned a session with the same creation
\* timestamp and the IoT session was returned.
C6_TieReturnsIot ==
    /\ pc = "done"
    /\ IotRes.k = "session" /\ IcmRes.k = "session"
    /\ IotRes.s.created_at = 2 /\ IcmRes.s.created_at = 2
    /\ outcome.k = "session" /\ outcome.s.cls = "IotActiveCallSession"

\* C7: when exactly one of the two fetches failed, the result is the other
\* side's result and nothing is raised; an exception is raised only when
\* both failed, and then it is one of the two failures.
C7_OneFailureReturnsOtherSide ==
    pc = "done" =>
        /\ (Failed(IotRes) /\ Succeeded(IcmRes)) => outcome = IcmRes
        /\ (Failed(IcmRes) /\ Succeeded(IotRes)) => outcome = IotRes
        /\ (Failed(IotRes) /\ Failed(IcmRes)) =>
              outcome.k = "exc" /\ outcome.exc \in {IotRes.exc, IcmRes.exc}

\* C8: when both fetches succeeded and exactly one returned a session, that
\* session is the result, whichever backend it came from; when both
\* returned None the result is None.
C8_OnlySessionWins ==
    (pc = "done" /\ Succeeded(IotRes) /\ Succeeded(IcmRes)) =>
        /\ (IotRes.k = "session" /\ IcmRes.k = "none") => outcome = IotRes
        /\ (IotRes.k = "none" /\ IcmRes.k = "session") => outcome = IcmRes
        /\ (IotRes.k = "none" /\ IcmRes.k = "none") => outcome.k = "none"

\* C8 witness: IoT returned None, ICM returned a session, and the ICM
\* session was returned.
C8_IcmSessionAlone ==
    /\ pc = "done"
    /\ IotRes.k = "none" /\ IcmRes.k = "session"
    /\ outcome.k = "session" /\ outcome.s.cls = "IcmActiveCallSession"

\* C9: both fetches are started before either is answered, and the outcome
\* is decided only after both have finished: whenever one has failed and
\* the other is still in flight the reconciler is still waiting, and at the
\* decision every task that issued a request has received its own response.
C9_WaitsForBoth ==
    /\ pc = "done" =>
          \A b \in Backends :
              /\ tasks[b].st = "done"
              /\ tasks[b].res.k # "pending"
              /\ is_authenticated => tasks[b].resp # NoResponse
    /\ (\E b \in Backends : tasks[b].st = "awaiting") => pc = "waiting"
    /\ (\E b \in Backends : tasks[b].resp # NoResponse) =>
          \A b \in Backends : tasks[b].st # "created"

\* C9 witness: the IoT fetch has failed while the ICM fetch is still in
\* flight, and the reconciler is still waiting.
C9_FailureWhileOtherInFlight ==
    /\ pc = "waiting"
    /\ tasks["iot"].st = "done" /\ Failed(IotRes)
    /\ tasks["icm"].st = "awaiting"

\* A 200 response whose body carries no session.
NoSessionResponse(resp) ==
    resp \in {Response(200, EmptyBody), Response(200, ObjectBody(NoData))}

\* The outcome of fetch_last_active_session for a pair of responses.
fetch_outcome(iot_resp, icm_resp) ==
    reconcile(iot_fetch_last_active_session(iot_resp),
              icm_fetch_last_active_session(icm_resp))

\* C10: for each backend, with the other backend's response fixed, the
\* outcome for a 200 response that carries no session is the outcome for a
\* 404; any other non-2xx status is a failure of that side.
C10_NotFoundSameAsNoSession ==
    (pc = "done" /\ is_authenticated) =>
        /\ NoSessionResponse(tasks["iot"].resp) =>
              outcome = fetch_outcome(Response(404, EmptyBody), tasks["icm"].resp)
        /\ NoSessionResponse(tasks["icm"].resp) =>
              outcome = fetch_outcome(tasks["iot"].resp, Response(404, EmptyBody))
        /\ \A b \in Backends :
              tasks[b].resp.status = 500 => Failed(tasks[b].res)

---------------------------------------------------------------------------
(* Call-session entities created and updated (specification SpecSession) *)

SessionClasses ==
    {"IcmCallSession", "IcmActiveCallSession", "IotCallSession", "IotActiveCallSession"}

\* The payloads of a call session: an id (integer or numeric string) and
\* the two timestamps, each present (1..MaxTime) or missing/null (0).  An
\* IcmCallSession payload carries them in its "call_session" sub-dict.
CallSessionPayloads(c) ==
    {MkData(i, ABSENT, ABSENT, NoBlock, NoBlock,
            IF c = "IcmCallSession" THEN "dict" ELSE "absent", t, n) :
        i \in {JInt(k) : k \in Ids} \cup {JStr(k) : k \in Ids},
        t \in 0..MaxTime, n \in 0..MaxTime}

InitSession ==
    /\ InitApi /\ InitMerge /\ InitPage /\ InitRec /\ InitExt
    /\ cls \in SessionClasses
    /\ obj = NewObject(NONE, 0)
    /\ data = NoData

\* cls.create_from_dict(api, d)
CreateSession ==
    /\ obj.cls = NONE
    /\ \E d \in CallSessionPayloads(cls) :
        /\ create_from_dict(cls, d).ok
        /\ obj' = create_from_dict(cls, d).v
        /\ data' = d
    /\ UNCHANGED <<cls, apiVars, mergeVars, pageVars, recVars, extVars>>

\* obj.update_from_dict(d), d a later payload of the same id
UpdateSession ==
    /\ obj.cls # NONE
    /\ \E d \in CallSessionPayloads(cls) :
        /\ get_id_from_data(cls, d) = Ok(obj.id)
        /\ obj' = update_from_dict(obj, d)
        /\ data' = d
    /\ UNCHANGED <<cls, apiVars, mergeVars, pageVars, recVars, extVars>>

NextSession ==
    \/ CreateSession
    \/ UpdateSession

SpecSession == InitSession /\ [][NextSession]_vars

\* C11: after a create or update of a call session of either backend from a
\* payload with a notification timestamp and no creation timestamp,
\* created_at equals notified_at; created_at is unset only when notified_at
\* is unset too.
C11_CreatedAtFallsBack ==
    obj.cls # NONE =>
        /\ (data.notified_at # 0 /\ data.created_at = 0) =>
              (obj.created_at = data.notified_at /\ obj.notified_at = data.notified_at)
        /\ obj.created_at = 0 => obj.notified_at = 0

---------------------------------------------------------------------------
(* icm_update_intercoms: per property and fanned out (specification SpecFanout) *)

\* Bound: the calls made in one behaviour (each call is made while fewer
\* than MaxRequests requests have been issued).
MaxRequests == 3

PropertyIds == {1, 2}

IntercomData(i, n) == MkData(i, n, ABSENT, NoBlock, NoBlock, "absent", 0, 0)

\* The non-empty pages of the intercoms endpoint.
FanPages ==
    {<<IntercomData(JInt(1), "a")>>, <<IntercomData(JInt(2), "a")>>,
     <<IntercomData(JInt(1), "a"), IntercomData(JInt(2), "a")>>,
     <<IntercomData(JBadStr, "a"), IntercomData(JInt(1), "a")>>}

\* The other answers of the endpoint: the empty page and the failures.
FanOtherResponses ==
    {Response(200, EmptyBody), Response(500, EmptyBody), Response(200, NotJson)}

\* obj.property_ids.add(property_id)
SetProperty(o, p) == [o EXCEPT !.property_ids = {p}]
AddProperty(o, p) == [o EXCEPT !.property_ids = @ \cup {p}]

\* The annotation a plural fetch puts on each yielded object.
Annotate(o, p) == IF p = NoProperty THEN o ELSE AddProperty(o, p)

\* One round of the loop over iterate_data_list_and_update: the payload is
\* skipped when its id cannot be extracted, else the stored object is
\* updated in place or a new one is created and inserted; the caller then
\* annotates it and records it in retrieved_objects.  s holds the store
\* (container, heap) and the caller's retrieved_objects.
merge_item_fresh(s, c, d, p) ==
    LET i == get_id_from_data(c, d)
        r == Len(s.heap) + 1
    IN  IF ~i.ok THEN s
        ELSE [container |-> (i.v :> r) @@ s.container,
              heap |-> Append(s.heap, Annotate(create_from_dict(c, d).v, p)),
              retrieved |-> (i.v :> r) @@ s.retrieved]
merge_item(s, c, d, p) ==
    LET i == get_id_from_data(c, d)
    IN  IF ~i.ok THEN s
        ELSE IF i.v \in DOMAIN s.container
        THEN LET r == s.container[i.v]
             IN  [container |-> s.container,
                  heap |-> [s.heap EXCEPT ![r] = Annotate(update_from_dict(@, d), p)],
                  retrieved |-> (i.v :> r) @@ s.retrieved]
        ELSE LET r == Len(s.heap) + 1
             IN  [container |-> (i.v :> r) @@ s.container,
                  heap |-> Append(s.heap, Annotate(create_from_dict(c, d).v, p)),
                  retrieved |-> (i.v :> r) @@ s.retrieved]

\* for obj_id, obj, _ in self.iterate_data_list_and_update(...): ...
RECURSIVE merge_list(_, _, _, _)
merge_list(s, c, dl, p) ==
    IF dl = << >> THEN s
    ELSE merge_list(merge_item(s, c, Head(dl), p), c, Tail(dl), p)

\* item_id: Optional[int] = None
NoItem == 0

\* update_single_item_from_request after its request: the id is item_id, or
\* get_id_from_data(resp_data) when item_id is None; the entity under it is
\* updated, or one is created by create_from_dict(self, resp_data) (which
\* takes the entity's id from resp_data) and inserted under it.  ref is the
\* item returned.
update_single_item_from_request(s, c, item_id, d) ==
    LET i == IF item_id = NoItem THEN get_id_from_data(c, d) ELSE Ok(item_id)
        o == create_from_dict(c, d)
    IN  IF ~i.ok THEN [ok |-> FALSE, s |-> s, ref |-> 0, exc |-> i.exc]
        ELSE IF i.v \in DOMAIN s.container
        THEN [ok |-> TRUE,
              s |-> [s EXCEPT !.heap[s.container[i.v]] = update_from_dict(@, d)],
              ref |-> s.container[i.v], exc |-> NONE]
        ELSE IF ~o.ok THEN [ok |-> FALSE, s |-> s, ref |-> 0, exc |-> o.exc]
        ELSE [ok |-> TRUE,
              s |-> [s EXCEPT !.container = (i.v :> Len(s.heap) + 1) @@ @,
                              !.heap = Append(@, o.v)],
              ref |-> Len(s.heap) + 1, exc |-> NONE]

\* The store a single-item fetch called with item_id leaves.
update_single_item(s, c, item_id, d) ==
    update_single_item_from_request(s, c, item_id, d).s

NoError == [exc |-> NONE, status |-> 0]
Error(r) == [exc |-> r.exc, status |-> IF r.exc = "ClientResponseError" THEN r.v ELSE 0]

NewFanTask ==
    [st |-> "created", page |-> 0, retrieved |-> << >>, err |-> NoError, cancel |-> FALSE]

InitFanout ==
    /\ InitUpd /\ InitPage /\ InitRec /\ InitUnlock /\ InitLater
    /\ authorization \in {NONE, "token"}
    /\ request_counter = 0
    /\ data_cls = "IcmIntercom"
    /\ container = << >> /\ heap = << >>
    /\ data_list = << >> /\ pos = 0 /\ yielded = << >>
    /\ mstate = "idle" /\ held = << >> /\ latest = << >>
    /\ icm_properties \in SUBSET PropertyIds
    /\ farg = NoProperty /\ fpc = "idle" /\ ftasks = << >> /\ fout = FanPending

\* if not (tasks := [...]): return retrieved_objects
NoTasksNever(ts) == FALSE
NoTasks(ts) == DOMAIN ts = {}

\* icm_update_intercoms(property_id) is called: with no property id it
\* creates one task per key of icm_properties and returns at once when
\* there is none; with a property id the call itself is the one fetch.
FanCall ==
    /\ fpc = "idle"
    /\ request_counter < MaxRequests
    /\ \E a \in {NoProperty} \cup PropertyIds :
        LET ts == [p \in (IF a = NoProperty THEN icm_properties ELSE {a}) |-> NewFanTask]
        IN  /\ farg' = a
            /\ IF a = NoProperty /\ NoTasks(ts)
               THEN /\ fpc' = "returned"
                    /\ fout' = FanReturn(<< >>)
                    /\ ftasks' = << >>
               ELSE /\ fpc' = "waiting"
                    /\ fout' = FanPending
                    /\ ftasks' = ts
    /\ UNCHANGED <<icm_properties, apiVars, mergeVars>>
    /\ UNCHANGED <<updVars, pageVars, recVars, unlockVars, laterVars>>

\* A per-property fetch runs from its start to the await of its first
\* request.  Tasks start in creation order, before any response arrives.
FanStart ==
    /\ \E p \in DOMAIN ftasks :
        /\ ftasks[p].st = "created"
        /\ \A q \in DOMAIN ftasks : ftasks[q].st = "created" => p <= q
        /\ IF is_authenticated
           THEN /\ request_counter' = request_counter + 1
                /\ ftasks' = [ftasks EXCEPT ![p].st = "awaiting", ![p].page = 1]
           ELSE /\ request_counter' = request_counter
                /\ ftasks' = [ftasks EXCEPT ![p].st = "done",
                                            ![p].err = [exc |-> "PikIntercomException", status |-> 0]]
    /\ UNCHANGED <<icm_properties, farg, fpc, fout, authorization, mergeVars>>
    /\ UNCHANGED <<updVars, pageVars, recVars, unlockVars, laterVars>>

\* A page request of one per-property fetch is answered: a failure ends the
\* fetch with the exception, an empty page ends it with its
\* retrieved_objects, any other page is merged into icm_intercoms, each
\* object is given the property id, and the next page is requested.
FanAnswer(p, resp) ==
    LET r == make_request_result(resp)
    IN  IF ~r.ok
        THEN /\ ftasks' = [ftasks EXCEPT ![p].st = "done", ![p].err = Error(r)]
             /\ UNCHANGED <<request_counter, container, heap>>
        ELSE IF r.v.k = "empty"
        THEN /\ ftasks' = [ftasks EXCEPT ![p].st = "done"]
             /\ UNCHANGED <<request_counter, container, heap>>
        ELSE LET s == merge_list([container |-> container, heap |-> heap,
                                  retrieved |-> ftasks[p].retrieved],
                                 data_cls, r.v.c, p)
             IN  /\ container' = s.container
                 /\ heap' = s.heap
                 /\ ftasks' = [ftasks EXCEPT ![p].retrieved = s.retrieved,
                                             ![p].page = @ + 1]
                 /\ request_counter' = request_counter + 1

FanRespond ==
    /\ \A q \in DOMAIN ftasks : ftasks[q].st # "created"
    /\ \E p \in DOMAIN ftasks :
        /\ ftasks[p].st = "awaiting"
        /\ ~ftasks[p].cancel
        /\ \/ \E pg \in FanPages :
                /\ ftasks[p].page < MaxPages
                /\ FanAnswer(p, Response(200, ListBody(pg)))
           \/ \E resp \in FanOtherResponses : FanAnswer(p, resp)
    /\ UNCHANGED <<icm_properties, farg, fpc, fout, authorization>>
    /\ UNCHANGED <<data_cls, data_list, pos, yielded, mstate, held, latest>>
    /\ UNCHANGED <<updVars, pageVars, recVars, unlockVars, laterVars>>

\* A cancelled task is resumed with CancelledError and ends.
FanCancelled ==
    /\ \E p \in DOMAIN ftasks :
        /\ ftasks[p].st = "awaiting"
        /\ ftasks[p].cancel
        /\ ftasks' = [ftasks EXCEPT ![p].st = "cancelled"]
    /\ UNCHANGED <<icm_properties, farg, fpc, fout, apiVars, mergeVars>>
    /\ UNCHANGED <<updVars, pageVars, recVars, unlockVars, laterVars>>

FanDoneTasks   == {p \in DOMAIN ftasks : ftasks[p].st = "done"}
FanFailedTasks == {p \in FanDoneTasks : ftasks[p].err # NoError}

\* asyncio.wait(tasks, return_when=asyncio.FIRST_EXCEPTION) returns.
FanWaitReturns ==
    \/ FanDoneTasks = DOMAIN ftasks
    \/ FanFailedTasks # {}

\* for task in pending: task.cancel()
LeavePending(ts) == ts
CancelPending(ts) ==
    [p \in DOMAIN ts |-> IF ts[p].st # "done" THEN [ts[p] EXCEPT !.cancel = TRUE]
                                               ELSE ts[p]]

\* for task in done: retrieved_objects.update(task.result()).  Two tasks
\* that retrieved the same id hold the same stored object.
FanUnion(ts) ==
    [i \in UNION {DOMAIN ts[p].retrieved : p \in DOMAIN ts} |->
        ts[CHOOSE p \in DOMAIN ts : i \in DOMAIN ts[p].retrieved].retrieved[i]]

\* The call resumes after the wait: the pending tasks are cancelled; the
\* exception of a failed task is raised, by next(iter(done)).exception() or
\* by task.result() in the loop over done (a set: any failed task may be
\* the one met first); with no failure the results are united.
FanWait ==
    /\ fpc = "waiting"
    /\ \A q \in DOMAIN ftasks : ftasks[q].st # "created"
    /\ FanWaitReturns
    /\ ftasks' = CancelPending(ftasks)
    /\ IF FanFailedTasks # {}
       THEN /\ fpc' = "raised"
            /\ \E p \in FanFailedTasks :
                 fout' = FanRaise(ftasks[p].err.exc, ftasks[p].err.status)
       ELSE /\ fpc' = "returned"
            /\ fout' = FanReturn(FanUnion(ftasks))
    /\ UNCHANGED <<icm_properties, farg, apiVars, mergeVars>>
    /\ UNCHANGED <<updVars, pageVars, recVars, unlockVars, laterVars>>

\* The caller has taken the outcome and every task has ended.
FanDone ==
    /\ fpc \in {"returned", "raised"}
    /\ \A p \in DOMAIN ftasks : ftasks[p].st \in {"done", "cancelled"}
    /\ fpc' = "idle" /\ farg' = NoProperty /\ ftasks' = << >> /\ fout' = FanPending
    /\ UNCHANGED <<icm_properties, apiVars, mergeVars>>
    /\ UNCHANGED <<updVars, pageVars, recVars, unlockVars, laterVars>>

\* icm_update_intercom(intercom_id): one request, then the stored intercom
\* is updated in place (or created) from the response.
UpdateIntercom ==
    /\ fpc = "idle"
    /\ is_authenticated
    /\ request_counter < MaxRequests
    /\ request_counter' = request_counter + 1
    /\ \E i \in Ids, n \in {"a", "b"} :
       \E resp \in {Response(200, ObjectBody(IntercomData(JInt(i), n))),
                    Response(500, EmptyBody)} :
        LET r == make_request_result(resp)
            s == update_single_item([container |-> container, heap |-> heap],
                                    data_cls, i, r.v.d)
        IN  IF r.ok
            THEN container' = s.container /\ heap' = s.heap
            ELSE UNCHANGED <<container, heap>>
    /\ UNCHANGED <<fanVars, authorization>>
    /\ UNCHANGED <<data_cls, data_list, pos, yielded, mstate, held, latest>>
    /\ UNCHANGED <<updVars, pageVars, recVars, unlockVars, laterVars>>

NextFanout ==
    \/ FanCall
    \/ FanStart
    \/ FanRespond
    \/ FanCancelled
    \/ FanWait
    \/ FanDone
    \/ UpdateIntercom

SpecFanout == InitFanout /\ [][NextFanout]_vars

\* C12: icm_update_intercoms called with no property id while there is no
\* known property returns the empty mapping in one step: no request is
\* issued, no task is created and every store is left as it was.
C12_NoPropertiesNoRequest ==
    [][(fpc = "idle" /\ fpc' # "idle" /\ farg' = NoProperty /\ icm_properties = {})
        => /\ fpc' = "returned"
           /\ fout' = FanReturn(<< >>)
           /\ ftasks' = << >>
           /\ request_counter' = request_counter
           /\ container' = container /\ heap' = heap
           /\ icm_properties' = icm_properties]_vars

\* C12 witness: with an intercom already stored and requests already
\* counted, the call without a property id returned the empty mapping.
C12_EmptyFanoutReturned ==
    /\ fpc = "returned" /\ farg = NoProperty /\ icm_properties = {}
    /\ fout = FanReturn(<< >>)
    /\ container # << >>
    /\ request_counter > 0

\* A per-property fetch that has received a response.
FanAnswered(p) ==
    ftasks[p].page > 1 \/ (ftasks[p].st = "done" /\ ftasks[p].page = 1)

\* C13: the call without a property id has one fetch per known property,
\* all started before any is answered; when it raised, its exception is the
\* failure of a fetch that failed and every fetch that had not completed is
\* cancelled (and never completes); when it returned, no fetch failed, all
\* completed, and the result is the union of their result sets.
C13_FirstFailureCancelsRest ==
    (farg = NoProperty /\ fpc # "idle") =>
        /\ DOMAIN ftasks = icm_properties
        /\ (\E p \in DOMAIN ftasks : FanAnswered(p))
              => \A q \in DOMAIN ftasks : ftasks[q].st # "created"
        /\ \A p \in DOMAIN ftasks :
              ftasks[p].cancel => (fpc = "raised" /\ ftasks[p].st \in {"awaiting", "cancelled"})
        /\ fpc = "raised" =>
              /\ \E p \in DOMAIN ftasks :
                    /\ ftasks[p].st = "done" /\ ftasks[p].err # NoError
                    /\ fout = FanRaise(ftasks[p].err.exc, ftasks[p].err.status)
              /\ \A p \in DOMAIN ftasks : ftasks[p].st # "done" => ftasks[p].cancel
        /\ fpc = "returned" =>
              /\ \A p \in DOMAIN ftasks : ftasks[p].st = "done" /\ ftasks[p].err = NoError
              /\ fout.k = "result"
              /\ DOMAIN fout.ids = UNION {DOMAIN ftasks[p].retrieved : p \in DOMAIN ftasks}
              /\ \A p \in DOMAIN ftasks : \A i \in DOMAIN ftasks[p].retrieved :
                    fout.ids[i] = ftasks[p].retrieved[i]

\* C13 witness: one fetch failed while the other, which had already merged
\* a page, was in flight; the call raised and the other is cancelled.
C13_FailedWhileSiblingInFlight ==
    /\ fpc = "raised" /\ farg = NoProperty
    /\ \E p, q \in DOMAIN ftasks :
        /\ p # q
        /\ ftasks[p].st = "done" /\ ftasks[p].err # NoError
        /\ ftasks[q].cancel /\ ftasks[q].retrieved # << >>

\* C14: every intercom retrieved by the fetch for property p is stored and
\* has p in its property_ids, and no step (a fetch, a fan-out, a
\* single-intercom update) removes an element of a stored intercom's
\* property_ids or the intercom itself.
C14_PropertyIdsOnlyGrow ==
    /\ [](\A p \in DOMAIN ftasks : \A i \in DOMAIN ftasks[p].retrieved :
            /\ i \in DOMAIN container
            /\ ftasks[p].retrieved[i] = container[i]
            /\ p \in heap[container[i]].property_ids)
    /\ [][\A i \in DOMAIN container :
            /\ i \in DOMAIN container'
            /\ container'[i] = container[i]
            /\ heap[container[i]].property_ids \subseteq heap'[container[i]].property_ids]_vars

\* C14 witness: an intercom fetched under property 1 was then updated from
\* a single-intercom payload and still has property 1.
C14_UpdatedIntercomKeepsProperty ==
    /\ fpc = "idle"
    /\ \E i \in DOMAIN container :
        /\ heap[container[i]].property_ids = {1}
        /\ heap[container[i]].name = "b"

---------------------------------------------------------------------------
(* Unlocking an intercom (specification SpecUnlock) *)

RelayIds == {1, 2, 3}

RelayData(raw) == MkData(raw, ABSENT, ABSENT, NoBlock, NoBlock, "absent", 0, 0)

\* The "relays" lists of an IoT intercom payload.
RelayLists ==
    {<< >>, <<RelayData(JInt(1))>>, <<RelayData(JInt(2)), RelayData(JInt(1))>>,
     <<RelayData(JInt(1)), RelayData(JBadStr), RelayData(JInt(1))>>,
     <<RelayData(JInt(1)), RelayData(JInt(2)), RelayData(JInt(3))>>}

\* The intercoms there are to unlock, by class: ICM ones differ in their
\* mode, IoT ones in their relays.
UnlockIntercoms(c) ==
    IF c = "IcmIntercom"
    THEN {create_from_dict(c, WithKey(IntercomData(JInt(i), "a"), "mode", m)).v :
            i \in Ids, m \in {ABSENT, "left_door", "right_door"}}
    ELSE {create_from_dict(c, IntercomData(JInt(1), "a")).v}
         \cup {create_from_dict(c, WithKey(IntercomData(JInt(1), "a"), "relays", rl)).v :
                 rl \in RelayLists}

\* The values a response body may hold under "request".
RequestValues == {ABSENT, NONE, JFalse, JTrue, TRUTHY}

\* The bodies icm_unlock_intercom may be answered with.
IcmUnlockBodies ==
    {ObjectBody(WithKey(NoData, "request", v)) : v \in RequestValues \ {ABSENT}}
    \cup {ObjectBody(NoData), ErrorBody, NotJson}

IcmUnlockResponses ==
    {Response(200, b) : b \in IcmUnlockBodies} \cup {Response(500, EmptyBody)}

\* The answers to iot_unlock_relay's request.
RelayResponses ==
    {Response(200, EmptyBody), Response(200, ErrorBody), Response(500, EmptyBody)}

IcmUnlockRequest(o) == [kind |-> "icm", id |-> o.id, door |-> o.mode]
RelayUnlockRequest(r) == [kind |-> "relay", id |-> r, door |-> NONE]

NewRelayTask == [st |-> "created", err |-> NoError, sent |-> 0]

NotAuthenticated == URaise("PikIntercomException", "API not authenticated")
TimedOutUnlocking == URaise("PikIntercomException", "Timed out unlocking intercom")
NoRelays == URaise("RuntimeError", "intercom does not have any relays")

InitUnlockSpec ==
    /\ InitMerge /\ InitPage /\ InitRec /\ InitFan /\ InitLater
    /\ authorization \in {NONE, "token"}
    /\ request_counter = 0
    /\ cls \in {"IcmIntercom", "IotIntercom"}
    /\ obj \in UnlockIntercoms(cls)
    /\ data = obj.source_data
    /\ upc = "idle" /\ utasks = << >> /\ ufailed = << >>
    /\ usent = << >> /\ uresp = NONE /\ uout = UPending

\* IcmIntercom.async_unlock -> icm_unlock_intercom(self.id, self.mode), up
\* to the await of its request.
IcmUnlock ==
    /\ upc = "idle" /\ cls = "IcmIntercom"
    /\ IF is_authenticated
       THEN /\ request_counter' = request_counter + 1
            /\ usent' = Append(usent, IcmUnlockRequest(obj))
            /\ upc' = "awaiting"
            /\ uout' = uout
       ELSE /\ upc' = "raised"
            /\ uout' = NotAuthenticated
            /\ UNCHANGED <<request_counter, usent>>
    /\ UNCHANGED <<utasks, ufailed, uresp, authorization>>
    /\ UNCHANGED <<updVars, mergeVars, pageVars, recVars, fanVars, laterVars>>

\* resp_data.get("request") is not True
IsTruthy(v) == v \in {JTrue, TRUTHY}
IsExactlyTrue(v) == v = JTrue

\* icm_unlock_intercom from the response on.
icm_unlock_result(resp) ==
    LET r == make_request_result(resp)
    IN  IF ~r.ok THEN URaise(r.exc, NONE)
        ELSE IF IsExactlyTrue(GetKey(r.v.d, "request")) THEN UOk
        ELSE TimedOutUnlocking

IcmUnlockRespond ==
    /\ upc = "awaiting"
    /\ \E resp \in IcmUnlockResponses :
        /\ uresp' = resp
        /\ uout' = icm_unlock_result(resp)
        /\ upc' = IF icm_unlock_result(resp).k = "ok" THEN "returned" ELSE "raised"
    /\ UNCHANGED <<utasks, ufailed, usent, apiVars>>
    /\ UNCHANGED <<updVars, mergeVars, pageVars, recVars, fanVars, laterVars>>

\* IotIntercom.unlock up to "await asyncio.gather(...)": RuntimeError when
\* relay_ids is empty, else one iot_unlock_relay coroutine per relay id.
IotUnlock ==
    /\ upc = "idle" /\ cls = "IotIntercom"
    /\ IF obj.relay_ids = << >>
       THEN /\ upc' = "raised"
            /\ uout' = NoRelays
            /\ utasks' = utasks
       ELSE /\ upc' = "waiting"
            /\ uout' = uout
            /\ utasks' = [r \in {obj.relay_ids[k] : k \in 1..Len(obj.relay_ids)} |-> NewRelayTask]
    /\ UNCHANGED <<ufailed, usent, uresp, apiVars>>
    /\ UNCHANGED <<updVars, mergeVars, pageVars, recVars, fanVars, laterVars>>

\* One iot_unlock_relay runs from its start to the await of its request.
\* The coroutines start in the order of relay_ids, before any response.
RelayStart ==
    /\ \E r \in DOMAIN utasks :
        /\ utasks[r].st = "created"
        /\ \A q \in DOMAIN utasks : utasks[q].st = "created" => r <= q
        /\ IF is_authenticated
           THEN /\ request_counter' = request_counter + 1
                /\ usent' = Append(usent, RelayUnlockRequest(r))
                /\ utasks' = [utasks EXCEPT ![r].st = "awaiting", ![r].sent = @ + 1]
                /\ ufailed' = ufailed
           ELSE /\ utasks' = [utasks EXCEPT ![r].st = "done",
                                            ![r].err = [exc |-> "PikIntercomException", status |-> 0]]
                /\ ufailed' = Append(ufailed, r)
                /\ UNCHANGED <<request_counter, usent>>
    /\ UNCHANGED <<upc, uresp, uout, authorization>>
    /\ UNCHANGED <<updVars, mergeVars, pageVars, recVars, fanVars, laterVars>>

\* The request of one iot_unlock_relay is answered; the response body is
\* not examined.  A sibling goes on whatever has become of the gather.
RelayRespond ==
    /\ \A q \in DOMAIN utasks : utasks[q].st # "created"
    /\ \E r \in DOMAIN utasks, resp \in RelayResponses :
        /\ utasks[r].st = "awaiting"
        /\ LET res == make_request_result(resp)
           IN  IF res.ok
               THEN /\ utasks' = [utasks EXCEPT ![r].st = "done"]
                    /\ ufailed' = ufailed
               ELSE /\ utasks' = [utasks EXCEPT ![r].st = "done", ![r].err = Error(res)]
                    /\ ufailed' = Append(ufailed, r)
    /\ UNCHANGED <<upc, usent, uresp, uout, apiVars>>
    /\ UNCHANGED <<updVars, mergeVars, pageVars, recVars, fanVars, laterVars>>

\* asyncio.gather(*aws) without return_exceptions: done as soon as one
\* child has failed, or when all have succeeded.
GatherDone ==
    \/ ufailed # << >>
    \/ \A r \in DOMAIN utasks : utasks[r].st = "done"

\* gather leaves the other children running when one has failed.
CancelSiblings(ts) ==
    [r \in DOMAIN ts |-> IF ts[r].st # "done" THEN [ts[r] EXCEPT !.st = "cancelled"]
                                               ELSE ts[r]]
KeepSiblings(ts) == ts

\* IotIntercom.unlock resumes from the gather: the first child failure is
\* raised, or the unlock returns.
IotUnlockResume ==
    /\ upc = "waiting"
    /\ \A q \in DOMAIN utasks : utasks[q].st # "created"
    /\ GatherDone
    /\ utasks' = KeepSiblings(utasks)
    /\ IF ufailed # << >>
       THEN /\ upc' = "raised"
            /\ uout' = URaise(utasks[ufailed[1]].err.exc, NONE)
       ELSE /\ upc' = "returned"
            /\ uout' = UOk
    /\ UNCHANGED <<ufailed, usent, uresp, apiVars>>
    /\ UNCHANGED <<updVars, mergeVars, pageVars, recVars, fanVars, laterVars>>

NextUnlock ==
    \/ IcmUnlock
    \/ IcmUnlockRespond
    \/ IotUnlock
    \/ RelayStart
    \/ RelayRespond
    \/ IotUnlockResume

SpecUnlock == InitUnlockSpec /\ [][NextUnlock]_vars

C16_AllRelayUnlocksIssued ==
    (cls = "IotIntercom" /\ upc \in {"returned", "raised"}) =>
        IF obj.relay_ids = << >>
        THEN uout = NoRelays /\ usent = << >> /\ utasks = << >> /\ request_counter = 0
        ELSE /\ DOMAIN utasks = {obj.relay_ids[k] : k \in 1..Len(obj.relay_ids)}
             /\ \A r \in DOMAIN utasks : utasks[r].st \in {"awaiting", "done"}
             /\ is_authenticated =>
                   /\ \A r \in DOMAIN utasks : utasks[r].sent = 1
                   /\ usent = [k \in 1..Len(obj.relay_ids) |-> RelayUnlockRequest(obj.relay_ids[k])]
             /\ upc = "returned" =>
                   /\ ufailed = << >>
                   /\ \A r \in DOMAIN utasks : utasks[r].st = "done"
             /\ upc = "raised" =>
                   /\ ufailed # << >>
                   /\ uout = URaise(utasks[ufailed[1]].err.exc, NONE)

\* C16 witness: of three relay unlocks the second failed and the unlock
\* raised; all three requests were issued and the third is still running.
C16_OneOfThreeFailed ==
    /\ cls = "IotIntercom" /\ upc = "raised"
    /\ obj.relay_ids = <<1, 2, 3>>
    /\ ufailed = <<2>>
    /\ Len(usent) = 3
    /\ utasks[3].st = "awaiting"

\* C17: a multi-relay unlock returns or raises only when every relay unlock
\* it started has finished, and its outcome (which carries one exception)
\* then accounts for every relay unlock that failed.
C17_UnlockWaitsForAllRelays ==
    [][(upc = "waiting" /\ upc' \in {"returned", "raised"})
        => /\ \A r \in DOMAIN utasks' : utasks'[r].st = "done"
           /\ \A k \in 1..Len(ufailed') : ufailed'[k] = ufailed'[1]]_vars

---------------------------------------------------------------------------
(* make_request under every operation (specification SpecRequest) *)

\* The operations of the client that begin with a make_request call.
\* (set_customer_device_push_token first looks its device up in
\* customer_devices and is left out.)
AuthenticatedOperations ==
    {"update_customer_device", "icm_update_properties", "icm_update_building",
     "icm_update_intercoms", "icm_update_intercom", "icm_unlock_intercom",
     "icm_update_call_sessions", "icm_fetch_last_active_session",
     "iot_update_intercoms", "iot_update_cameras", "iot_update_meters",
     "iot_unlock_relay", "iot_fetch_last_active_session",
     "iot_update_call_sessions"}

\* The authenticated argument: only authenticate passes False.
authenticated(op) == op # "authenticate"

\* The response headers: the Authorization header or None.
Headers(a) == [authorization |-> a]

HttpResponse(status, body, h) == [status |-> status, body |-> body, headers |-> h]

\* The bodies a request may be answered with.
RequestBodies ==
    {NotJson, BlankBody, WrongType, NullBody, ErrorBody, EmptyBody, ListBody("p"),
     ObjectBody(NoData),
     ObjectBody(WithKey(NoData, "error", FALSY)),
     ObjectBody(WithKey(NoData, "error", TRUTHY)),
     ObjectBody(WithKey(NoData, "account", TRUTHY))}

RequestResponses ==
    {HttpResponse(st, b, Headers(a)) :
        st \in {200}, b \in RequestBodies, a \in {NONE, "token"}}
    \cup {HttpResponse(st, EmptyBody, Headers(NONE)) : st \in {401, 404, 500}}

NotAuthenticatedError ==
    ReqRaise(NotAuthenticated.exc, NotAuthenticated.msg, 0)

InitRequest ==
    /\ InitUpd /\ InitMerge /\ InitPage /\ InitRec /\ InitFan /\ InitUnlock
    /\ InitFetched /\ InitStored /\ InitTail
    /\ authorization = NONE
    /\ request_counter = 0
    /\ InitReq

\* if authenticated: if not self.is_authenticated: raise
TokenNeverMissing(op) == FALSE
TokenMissing(op) == authenticated(op) /\ ~is_authenticated

\* make_request up to its await: the token check, the Authorization header,
\* the request counter, the HTTP call.
MakeRequest(op) ==
    /\ rpc # "awaiting"
    /\ rop' = op
    /\ rresp' = NONE
    /\ IF TokenMissing(op)
       THEN /\ rpc' = "raised"
            /\ rout' = NotAuthenticatedError
            /\ UNCHANGED <<request_counter, rsent>>
       ELSE /\ request_counter < MaxRequests
            /\ request_counter' = request_counter + 1
            /\ rsent' = Append(rsent,
                   [op |-> op,
                    authorization |-> IF authenticated(op) THEN authorization ELSE NONE])
            /\ rpc' = "awaiting"
            /\ rout' = ReqPending
    /\ UNCHANGED authorization
    /\ UNCHANGED <<updVars, mergeVars, pageVars, recVars, fanVars, unlockVars, fetchVars, storeVars, tailVars>>

\* authenticate is called.
Authenticate == MakeRequest("authenticate")

\* One of the other operations is called.
CallOperation == \E op \in AuthenticatedOperations : MakeRequest(op)

\* What make_request returns or raises for a response.
make_request_outcome(resp) ==
    LET r == make_request_result(resp)
    IN  IF r.ok THEN ReqReturn(r.v, resp.headers)
        ELSE ReqRaise(r.exc, NONE, r.v)

\* authenticate after its make_request: the token is stored when the
\* request succeeded and carried an Authorization header.
authorization_after(op, resp) ==
    IF /\ op = "authenticate"
       /\ make_request_result(resp).ok
       /\ resp.headers.authorization # NONE
    THEN resp.headers.authorization
    ELSE authorization

\* The response to the HTTP call arrives.
MakeRequestRespond ==
    /\ rpc = "awaiting"
    /\ \E resp \in RequestResponses :
        /\ rresp' = resp
        /\ rout' = make_request_outcome(resp)
        /\ rpc' = IF rout'.k = "result" THEN "returned" ELSE "raised"
        /\ authorization' = authorization_after(rop, resp)
    /\ UNCHANGED <<request_counter, rop, rsent>>
    /\ UNCHANGED <<updVars, mergeVars, pageVars, recVars, fanVars, unlockVars, fetchVars, storeVars, tailVars>>

NextRequest ==
    \/ Authenticate
    \/ CallOperation
    \/ MakeRequestRespond

SpecRequest == InitRequest /\ [][NextRequest]_vars

\* C18: whenever an operation other than authenticate calls make_request
\* while the client holds no token, the call raises
\* PikIntercomException("API not authenticated"), no HTTP call is issued and
\* the request counter stays; and every HTTP call of such an operation ever
\* issued carried a token.
C18_NoTokenNoRequest ==
    /\ [][(rpc # "awaiting" /\ ~is_authenticated /\ authenticated(rop'))
            => /\ rpc' = "raised"
               /\ rout' = NotAuthenticatedError
               /\ rsent' = rsent
               /\ request_counter' = request_counter]_vars
    /\ [](\A k \in 1..Len(rsent) :
             authenticated(rsent[k].op) => rsent[k].authorization # NONE)

\* C18 witness: authenticate was tried and failed, its HTTP call being the only
\* one issued; an operation called afterwards failed as not authenticated.
C18_RejectedAfterFailedAuthenticate ==
    /\ ~is_authenticated
    /\ Len(rsent) = 1 /\ rsent[1].op = "authenticate"
    /\ request_counter = 1
    /\ rop = "iot_update_meters"
    /\ rpc = "raised"
    /\ rout = NotAuthenticatedError

\* The text of the body is valid JSON.
ValidJson(b) == b.k \notin {"notjson", "blank", "wrongtype"}

\* C19: every answered request has exactly the outcome its response calls
\* for: a non-2xx status a ClientResponseError with that status; a 2xx body
\* that is not valid JSON a MalformedDataError; a 2xx JSON object with a
\* truthy error field a ServerResponseError; any other 2xx body is returned
\* with the response headers.
C19_OneOutcomePerResponse ==
    (rpc \in {"returned", "raised"} /\ rout # NotAuthenticatedError) =>
        IF rresp.status \notin 200..299
        THEN rout.k = "exc" /\ rout.exc = "ClientResponseError"
             /\ rout.status = rresp.status
        ELSE IF ~ValidJson(rresp.body)
        THEN rout.k = "exc" /\ rout.exc = "MalformedDataError"
        ELSE IF has_error(rresp.body)
        THEN rout.k = "exc" /\ rout.exc = "ServerResponseError"
        ELSE rout = ReqReturn(rresp.body, rresp.headers)

---------------------------------------------------------------------------
(* The plural fetch operations (specification SpecFetch) *)

PluralFetches ==
    {"icm_update_properties", "icm_update_intercoms", "icm_update_call_sessions",
     "iot_update_intercoms", "iot_update_cameras", "iot_update_meters",
     "iot_update_call_sessions"}

\* The class each operation merges into its store.
FetchClass(op) ==
    CASE op = "icm_update_properties"    -> "IcmProperty"
      [] op = "icm_update_intercoms"     -> "IcmIntercom"
      [] op = "icm_update_call_sessions" -> "IcmCallSession"
      [] op = "iot_update_intercoms"     -> "IotIntercom"
      [] op = "iot_update_cameras"       -> "IotCamera"
      [] op = "iot_update_meters"        -> "IotMeter"
      [] op = "iot_update_call_sessions" -> "IotCallSession"

\* max_pages: the call session fetches take it (10 by default), the others
\* leave iterate_paginated_request's None.
FetchMaxPages(op) ==
    IF op \in {"icm_update_call_sessions", "iot_update_call_sessions"}
    THEN {1, 10} ELSE {NoLimit}

\* property_id: only icm_update_intercoms takes one (its form without one
\* is the fan-out of SpecFanout).
FetchArgs(op) == IF op = "icm_update_intercoms" THEN PropertyIds ELSE {NoProperty}

\* An item of a page, for class c.
FetchItem(c, raw, n) ==
    MkData(raw, n, ABSENT, NoBlock, NoBlock,
           IF c = "IcmCallSession" THEN "dict" ELSE "absent", 0, 0)

\* An IoT intercom payload with a geo_unit and embedded relays.
WithRelays(d, rl) ==
    WithKey([d EXCEPT !.geo_unit = [b |-> "dict", v |-> "full", short_name |-> "short"]],
            "relays", rl)

\* The same payload with another short_name in its geo_unit.
WithShortName(d, short) == [d EXCEPT !.geo_unit.short_name = short]

\* The non-empty data lists the endpoints answer with: for the IoT intercoms
\* also a relay list with an unusable id, one unsorted with a repeated id,
\* and one relay embedded into two intercoms of different geo units.
FetchLists(c) ==
    {<<FetchItem(c, JInt(1), "a")>>, <<FetchItem(c, JInt(2), "a")>>,
     <<FetchItem(c, JInt(1), "b"), FetchItem(c, JInt(2), "a")>>,
     <<FetchItem(c, JBadStr, "a"), FetchItem(c, JInt(1), "a")>>}
    \cup (IF c = "IotIntercom"
          THEN {<<WithRelays(FetchItem(c, JInt(1), "a"),
                             <<RelayData(JInt(2)), RelayData(JBadStr)>>)>>,
                <<WithRelays(FetchItem(c, JInt(1), "b"),
                             <<RelayData(JInt(2)), RelayData(JInt(1)), RelayData(JInt(2))>>)>>,
                <<WithRelays(FetchItem(c, JInt(1), "a"), <<RelayData(JInt(2))>>),
                  WithShortName(WithRelays(FetchItem(c, JInt(2), "a"), <<RelayData(JInt(2))>>),
                                "other")>>}
          ELSE {})

\* The property categories of the properties endpoint.
Categories == {"apartment", "parking"}

\* The failures a request of a fetch may end with.
FetchFailures == {Response(500, EmptyBody), Response(200, NotJson), Response(200, ErrorBody)}

InitFetch ==
    /\ InitApi /\ InitUpd /\ InitRec /\ InitFan /\ InitUnlock /\ InitReq
    /\ InitStored /\ InitTail
    /\ fop \in PluralFetches
    /\ data_cls = FetchClass(fop)
    /\ container = << >> /\ heap = << >>
    /\ data_list = << >> /\ pos = 0 /\ yielded = << >>
    /\ mstate = "idle" /\ held = << >> /\ latest = << >>
    /\ max_pages \in FetchMaxPages(fop)
    /\ page_number = 0
    /\ gen = "new" /\ requests = << >> /\ bodies = << >> /\ pages = << >>
    /\ garg = NoProperty /\ gpc = "idle"
    /\ gret = << >> /\ gtouched = {} /\ gout = FanPending
    /\ iot_relays = [container |-> << >>, heap |-> << >>]

\* The ids iterate_data_list_and_update gets out of a data list.
RECURSIVE ListIds(_, _)
ListIds(c, dl) ==
    IF dl = << >> THEN {}
    ELSE LET i == get_id_from_data(c, Head(dl))
         IN  (IF i.ok THEN {i.v} ELSE {}) \cup ListIds(c, Tail(dl))

\* icm_update_properties: the loop over one category's list;
\* obj.category = property_type.
RECURSIVE merge_category(_, _, _)
merge_category(s, dl, cat) ==
    IF dl = << >> THEN s
    ELSE LET i == get_id_from_data("IcmProperty", Head(dl))
             t == merge_item(s, "IcmProperty", Head(dl), NoProperty)
         IN  merge_category(
                 IF i.ok THEN [t EXCEPT !.heap[t.container[i.v]].category = cat] ELSE s,
                 Tail(dl), cat)

\* iot_update_intercoms: the relays embedded into an intercom are merged
\* into iot_relays; relay.geo_unit_short_name = intercom.geo_unit_short_name.
RECURSIVE merge_relays(_, _, _)
merge_relays(rs, dl, short) ==
    IF dl = << >> THEN rs
    ELSE LET i == get_id_from_data("IotRelay", Head(dl))
             t == merge_item(rs, "IotRelay", Head(dl), NoProperty)
         IN  merge_relays(
                 IF i.ok THEN [t EXCEPT !.heap[t.container[i.v]].geo_unit_short_name = short]
                         ELSE rs,
                 Tail(dl), short)

\* iot_update_intercoms: the loop over a page; st holds the intercom store
\* with retrieved_objects (s) and the relay store (rs).
RECURSIVE merge_intercoms(_, _)
merge_intercoms(st, dl) ==
    IF dl = << >> THEN st
    ELSE LET d == Head(dl)
             i == get_id_from_data("IotIntercom", d)
             t == merge_item(st.s, "IotIntercom", d, NoProperty)
         IN  merge_intercoms(
                 IF i.ok
                 THEN [s |-> t,
                       rs |-> merge_relays(st.rs,
                                  IF HasKey(d, "relays") THEN d.relays ELSE << >>,
                                  t.heap[t.container[i.v]].geo_unit_short_name)]
                 ELSE st,
                 Tail(dl))

\* The body of an operation's loop for one data list (cat: the category of
\* icm_update_properties, p: the property of icm_update_intercoms).
fetch_merge(op, st, dl, cat, p) ==
    CASE op = "icm_update_properties" -> [st EXCEPT !.s = merge_category(st.s, dl, cat)]
      [] op = "iot_update_intercoms"  -> merge_intercoms(st, dl)
      [] OTHER -> [st EXCEPT !.s = merge_list(st.s, FetchClass(op), dl, p)]

\* The stores and retrieved_objects of the running call.
FetchState ==
    [s  |-> [container |-> container, heap |-> heap, retrieved |-> gret],
     rs |-> [container |-> iot_relays.container, heap |-> iot_relays.heap,
             retrieved |-> << >>]]

\* return retrieved_objects
WholeStore(s) == s.container
retrieved_objects(s) == s.retrieved

\* The operation is called: retrieved_objects = {} and the first request.
FetchCall ==
    /\ gpc # "awaiting"
    /\ request_counter < MaxRequests
    /\ \E p \in FetchArgs(fop) : garg' = p
    /\ gpc' = "awaiting"
    /\ gret' = << >>
    /\ gtouched' = {}
    /\ gout' = FanPending
    /\ page_number' = 1
    /\ request_counter' = request_counter + 1
    /\ UNCHANGED <<authorization, fop, iot_relays>>
    /\ UNCHANGED <<data_cls, container, heap, data_list, pos, yielded, mstate, held, latest>>
    /\ UNCHANGED <<max_pages, gen, requests, bodies, pages>>
    /\ UNCHANGED <<updVars, recVars, fanVars, unlockVars, reqVars, storeVars, tailVars>>

\* The call ends with the stores as st leaves them, returning or raising.
FetchEndRollback(st, out) ==
    /\ container' = IF out.k = "result" THEN st.s.container ELSE << >>
    /\ heap' = IF out.k = "result" THEN st.s.heap ELSE << >>
    /\ iot_relays' = [container |-> st.rs.container, heap |-> st.rs.heap]
    /\ gret' = st.s.retrieved
    /\ gout' = out
    /\ gpc' = IF out.k = "result" THEN "returned" ELSE "raised"
    /\ UNCHANGED <<page_number, request_counter>>
FetchEnd(st, out) ==
    /\ container' = st.s.container
    /\ heap' = st.s.heap
    /\ iot_relays' = [container |-> st.rs.container, heap |-> st.rs.heap]
    /\ gret' = st.s.retrieved
    /\ gout' = out
    /\ gpc' = IF out.k = "result" THEN "returned" ELSE "raised"
    /\ UNCHANGED <<page_number, request_counter>>

\* A page has been merged: the generator asks for the next page, or the
\* loop is over and the call returns.
FetchNext(st) ==
    IF MayRequest /\ fop # "icm_update_properties"
    THEN /\ request_counter < MaxRequests
         /\ page_number < MaxPages
         /\ container' = st.s.container
         /\ heap' = st.s.heap
         /\ iot_relays' = [container |-> st.rs.container, heap |-> st.rs.heap]
         /\ gret' = st.s.retrieved
         /\ page_number' = page_number + 1
         /\ request_counter' = request_counter + 1
         /\ UNCHANGED <<gpc, gout>>
    ELSE FetchEnd(st, FanReturn(retrieved_objects(st.s)))

\* The response to the request arrives: a failure is raised, a falsy page
\* ends the loop, anything else is merged.
FetchRespond ==
    /\ gpc = "awaiting"
    /\ \/ \E resp \in FetchFailures :
            LET r == make_request_result(resp)
            IN  /\ FetchEnd(FetchState, FanRaise(r.exc, Error(r).status))
                /\ UNCHANGED gtouched
       \/ /\ fop # "icm_update_properties"
          /\ FetchEnd(FetchState, FanReturn(retrieved_objects(FetchState.s)))
          /\ UNCHANGED gtouched
       \/ /\ fop = "icm_update_properties"
          /\ \E dl1 \in FetchLists("IcmProperty") \cup {<< >>},
                dl2 \in {<< >>, <<FetchItem("IcmProperty", JInt(2), "b")>>} :
                LET c1 == CHOOSE c \in Categories : TRUE
                    c2 == CHOOSE c \in Categories : c # c1
                    st == fetch_merge(fop, fetch_merge(fop, FetchState, dl1, c1, garg),
                                      dl2, c2, garg)
                IN  /\ gtouched' = gtouched \cup ListIds("IcmProperty", dl1)
                                            \cup ListIds("IcmProperty", dl2)
                    /\ FetchNext(st)
       \/ /\ fop # "icm_update_properties"
          /\ \E dl \in FetchLists(FetchClass(fop)) :
                /\ gtouched' = gtouched \cup ListIds(FetchClass(fop), dl)
                /\ FetchNext(fetch_merge(fop, FetchState, dl, NONE, garg))
    /\ UNCHANGED <<authorization, fop, garg>>
    /\ UNCHANGED <<data_cls, data_list, pos, yielded, mstate, held, latest>>
    /\ UNCHANGED <<max_pages, gen, requests, bodies, pages>>
    /\ UNCHANGED <<updVars, recVars, fanVars, unlockVars, reqVars, storeVars, tailVars>>

NextFetch ==
    \/ FetchCall
    \/ FetchRespond

SpecFetch == InitFetch /\ [][NextFetch]_vars

\* C20: when a plural fetch has returned, the keys of what it returned are
\* exactly the ids whose payloads this call merged into the operation's
\* store, each value is the reference the store holds under that id, and no
\* id that is only in the store from an earlier call is among the keys.
C20_ResultIsWhatThisCallMerged ==
    gpc = "returned" =>
        /\ gout.k = "result"
        /\ DOMAIN gout.ids = gtouched
        /\ \A i \in DOMAIN gout.ids :
              i \in DOMAIN container /\ gout.ids[i] = container[i]
        /\ \A i \in DOMAIN container :
              i \notin gtouched => i \notin DOMAIN gout.ids

\* C20 witness: a call returned entity 2 alone while the store also holds
\* entity 1 from an earlier call.
C20_EarlierEntityNotReturned ==
    /\ gpc = "returned"
    /\ DOMAIN container = {1, 2}
    /\ gtouched = {2}
    /\ DOMAIN gout.ids = {2}
    /\ gout.ids[2] = container[2]

\* The usable relay ids of an intercom payload.
ValidRelayIds(d) ==
    IF ~HasKey(d, "relays") THEN {}
    ELSE {PyIntOfKey(d.relays[k].id).v :
             k \in {j \in 1..Len(d.relays) : PyIntOfKey(d.relays[j].id).ok}}

\* C35: when iot_update_intercoms has returned, every intercom it returned
\* has each id of its relay_ids as a key of the relay store, its relay_ids
\* is the sorted tuple without duplicates of the usable relay ids of its
\* latest payload, and every relay of that payload carries the intercom's
\* geo_unit_short_name.
C35_ReturnedIntercomsAndTheirRelays ==
    (fop = "iot_update_intercoms" /\ gpc = "returned") =>
        \A i \in DOMAIN gout.ids :
            LET o == heap[gout.ids[i]]
            IN  /\ \A k \in 1..Len(o.relay_ids) :
                      o.relay_ids[k] \in DOMAIN iot_relays.container
                /\ \A k \in 1..Len(o.relay_ids) - 1 : o.relay_ids[k] < o.relay_ids[k + 1]
                /\ {o.relay_ids[k] : k \in 1..Len(o.relay_ids)} = ValidRelayIds(o.source_data)
                /\ \A r \in ValidRelayIds(o.source_data) :
                      /\ r \in DOMAIN iot_relays.container
                      /\ iot_relays.heap[iot_relays.container[r]].geo_unit_short_name
                            = o.geo_unit_short_name

\* C36: a multi-page fetch whose request for page k fails raises that
\* failure and returns no result; the stores keep every entity merged from
\* the pages before k, with the values those pages gave them; and no request
\* is issued for a later page: the next request is page 1 of a new call.
C36_FailedPageKeepsEarlierPages ==
    /\ [][(gpc = "awaiting" /\ gpc' = "raised") =>
             /\ gout'.k = "exc" /\ gout'.ids = << >>
             /\ container' = container /\ heap' = heap /\ iot_relays' = iot_relays
             /\ request_counter' = request_counter
             /\ page_number' = page_number]_vars
    /\ [][(gpc = "raised" /\ request_counter' # request_counter) =>
             gpc' = "awaiting" /\ page_number' = 1 /\ gret' = << >>]_vars

\* C36 witness: iot_update_meters merged meter 1 from page 1, meter 1
\* changed and meter 2 from page 2, and failed on page 3; both meters are in
\* the store with the payloads of page 2.
C36_FailedOnThirdPage ==
    /\ fop = "iot_update_meters" /\ gpc = "raised" /\ gout.k = "exc"
    /\ page_number = 3 /\ request_counter = 3
    /\ DOMAIN container = {1, 2}
    /\ heap[container[1]].source_data.name = "b"

---------------------------------------------------------------------------
(* All the stores of the client (specification SpecStores) *)

IcmStores == {"icm_buildings", "icm_call_sessions", "icm_intercoms", "icm_properties"}
IotStores == {"iot_call_sessions", "iot_cameras", "iot_intercoms", "iot_meters",
              "iot_relays"}
StoreNames == {"customer_devices"} \cup IcmStores \cup IotStores

\* The class each store is declared to hold.
StoreClass(n) ==
    CASE n = "customer_devices"  -> "CustomerDevice"
      [] n = "icm_buildings"     -> "IcmBuilding"
      [] n = "icm_call_sessions" -> "IcmCallSession"
      [] n = "icm_intercoms"     -> "IcmIntercom"
      [] n = "icm_properties"    -> "IcmProperty"
      [] n = "iot_call_sessions" -> "IotCallSession"
      [] n = "iot_cameras"       -> "IotCamera"
      [] n = "iot_intercoms"     -> "IotIntercom"
      [] n = "iot_meters"        -> "IotMeter"
      [] n = "iot_relays"        -> "IotRelay"

IcmOperations ==
    {"icm_update_properties", "icm_update_intercoms", "icm_update_call_sessions",
     "icm_update_intercom", "icm_unlock_intercom"}
IotOperations ==
    {"iot_update_intercoms", "iot_update_cameras", "iot_update_meters",
     "iot_update_call_sessions", "iot_unlock_relay"}
UnlockOperations == {"icm_unlock_intercom", "iot_unlock_relay"}
StoreOperations == IcmOperations \cup IotOperations \cup {"update_customer_device"}

\* The container an operation hands to its merge.
StoreOfKind(op) ==
    CASE op \in {"icm_update_intercoms", "icm_update_intercom",
                 "iot_update_intercoms"}  -> "icm_intercoms"
      [] op \in {"icm_update_call_sessions",
                 "iot_update_call_sessions"} -> "icm_call_sessions"
      [] op = "icm_update_properties"     -> "icm_properties"
      [] op = "iot_update_cameras"        -> "iot_cameras"
      [] op = "iot_update_meters"         -> "iot_meters"
      [] op = "update_customer_device"    -> "customer_devices"
StoreOf(op) ==
    CASE op = "icm_update_properties"    -> "icm_properties"
      [] op = "icm_update_intercoms"     -> "icm_intercoms"
      [] op = "icm_update_intercom"      -> "icm_intercoms"
      [] op = "icm_update_call_sessions" -> "icm_call_sessions"
      [] op = "iot_update_intercoms"     -> "iot_intercoms"
      [] op = "iot_update_cameras"       -> "iot_cameras"
      [] op = "iot_update_meters"        -> "iot_meters"
      [] op = "iot_update_call_sessions" -> "iot_call_sessions"
      [] op = "update_customer_device"   -> "customer_devices"

EmptyStore == [container |-> << >>, heap |-> << >>]

\* The data lists the endpoints answer with: an item, the same item changed
\* and marked deleted, another item beside one with an unusable id.
StoreLists(c) ==
    {<<FetchItem(c, JInt(1), "a")>>,
     <<WithKey(FetchItem(c, JInt(1), "b"), "deleted_at", TRUTHY)>>,
     <<FetchItem(c, JInt(2), "a"), FetchItem(c, JBadStr, "a")>>}
    \cup (IF c = "IotIntercom"
          THEN {<<WithRelays(FetchItem(c, JInt(1), "a"), <<RelayData(JInt(1))>>)>>}
          ELSE {})

InitStores ==
    /\ InitApi /\ InitUpd /\ InitMerge /\ InitPage /\ InitRec /\ InitFan /\ InitUnlock
    /\ InitReq /\ InitFetched /\ InitTail
    /\ stores = [n \in StoreNames |-> EmptyStore]
    /\ sop = NONE

\* A store as the merge operators take it.
store_state(n) ==
    [container |-> stores[n].container, heap |-> stores[n].heap, retrieved |-> << >>]

\* container[obj_id] = obj: the store is the dict the merge wrote into.
replace_store(ss, n, s) == [ss EXCEPT ![n] = [container |-> s.retrieved, heap |-> s.heap]]
put_store(ss, n, s) == [ss EXCEPT ![n] = [container |-> s.container, heap |-> s.heap]]

\* CustomerDevice objects are merged by _deserialize_customer_device:
\* int(data["id"]) is not guarded, the rest is the create-or-update rule.
deserialize_customer_device(s, d) ==
    LET i == PyIntOfKey(d.id)
    IN  IF i.ok
        THEN [ok |-> TRUE, s |-> merge_item(s, "CustomerDevice", d, NoProperty), exc |-> NONE]
        ELSE [ok |-> FALSE, s |-> s, exc |-> i.exc]

\* An operation starts: one request on the counter.
StoreRequest(op) ==
    /\ op \in StoreOperations
    /\ request_counter < MaxRequests
    /\ request_counter' = request_counter + 1
    /\ sop' = op
    /\ UNCHANGED authorization
    /\ UNCHANGED <<updVars, mergeVars, pageVars, recVars, fanVars, unlockVars>>
    /\ UNCHANGED <<reqVars, fetchVars, tailVars>>

\* A plural fetch runs: its page is merged (the next page is empty).
StoreFetch ==
    \E op \in PluralFetches :
        /\ StoreRequest(op)
        /\ \E p \in FetchArgs(op), dl \in StoreLists(FetchClass(op)),
              cat \in (IF op = "icm_update_properties" THEN Categories ELSE {NONE}) :
            LET st == fetch_merge(op, [s  |-> store_state(StoreOf(op)),
                                       rs |-> store_state("iot_relays")],
                                  dl, cat, p)
                ss == put_store(stores, StoreOf(op), st.s)
            IN  stores' = IF op = "iot_update_intercoms"
                          THEN put_store(ss, "iot_relays", st.rs)
                          ELSE ss

\* icm_update_intercom(intercom_id) runs.
StoreSingle ==
    /\ StoreRequest("icm_update_intercom")
    /\ \E item_id \in Ids, i \in Ids :
        stores' = put_store(stores, "icm_intercoms",
                      update_single_item(store_state("icm_intercoms"), "IcmIntercom",
                                         item_id, FetchItem("IcmIntercom", JInt(i), "b")))

\* update_customer_device runs: the device of the response is merged.
StoreDevice ==
    /\ StoreRequest("update_customer_device")
    /\ \E dl \in StoreLists("CustomerDevice") :
        LET r == deserialize_customer_device(store_state("customer_devices"), dl[1])
        IN  stores' = put_store(stores, "customer_devices", r.s)

\* An unlock runs, or the request of any operation fails: no store is touched.
StoreUntouched ==
    /\ \E op \in StoreOperations : StoreRequest(op)
    /\ UNCHANGED stores

NextStores ==
    \/ StoreFetch
    \/ StoreSingle
    \/ StoreDevice
    \/ StoreUntouched

SpecStores == InitStores /\ [][NextStores]_vars

\* C21: no step of any operation takes a key out of a store or puts another
\* object under a key already there, and every object ever created in a
\* store is still held under a key of it (one whose latest payload carries
\* deleted_at included).
C21_StoresOnlyGrow ==
    /\ [][\A n \in StoreNames : \A i \in DOMAIN stores[n].container :
             /\ i \in DOMAIN stores'[n].container
             /\ stores'[n].container[i] = stores[n].container[i]]_vars
    /\ [](\A n \in StoreNames : \A r \in 1..Len(stores[n].heap) :
             \E i \in DOMAIN stores[n].container : stores[n].container[i] = r)

\* C21 witness: call session 1 was merged with deleted_at set and is still
\* held under its id, beside a session merged by another fetch.
C21_DeletedStillAddressable ==
    LET st == stores["iot_call_sessions"]
    IN  /\ DOMAIN st.container = {1, 2}
        /\ st.heap[st.container[1]].deleted_at # NONE
        /\ st.heap[st.container[1]].id = 1

\* C22: an operation of one backend leaves every store of the other backend
\* (and the customer devices) as it was, and each store holds objects of its
\* own class only, so that one id fetched from both backends is two objects.
C22_StoresPerBackend ==
    /\ [][/\ sop' \in IotOperations =>
                \A n \in StoreNames \ IotStores : stores'[n] = stores[n]
          /\ sop' \in IcmOperations =>
                \A n \in StoreNames \ IcmStores : stores'[n] = stores[n]]_vars
    /\ [](\A n \in StoreNames : \A r \in 1..Len(stores[n].heap) :
             stores[n].heap[r].cls = StoreClass(n))

\* C22 witness: intercom id 1 is known from both backends, as two objects
\* with different payloads.
C22_SameIdTwoEntities ==
    LET icm == stores["icm_intercoms"]
        iot == stores["iot_intercoms"]
    IN  /\ 1 \in DOMAIN icm.container /\ 1 \in DOMAIN iot.container
        /\ icm.heap[icm.container[1]].cls = "IcmIntercom"
        /\ iot.heap[iot.container[1]].cls = "IotIntercom"
        /\ icm.heap[icm.container[1]].name # iot.heap[iot.container[1]].name

\* C31: in every store, each key maps to an entity whose id is that key,
\* after batch merges and after a single-item fetch called with an explicit
\* id, whatever id its response payload carries.
C31_KeyIsEntityId ==
    \A n \in StoreNames : \A k \in DOMAIN stores[n].container :
        stores[n].heap[stores[n].container[k]].id = k

---------------------------------------------------------------------------
(* Two fetch operations as concurrent tasks (specification SpecConcurrent) *)

\* The tasks of the event loop under study.
Tasks == {1, 2}

\* The pages the server answers with.  A paginated endpoint serves entity 1,
\* then entity 1 changed beside entity 2, then entity 2, and an empty page
\* at MaxPages; the intercoms of property 2 are entity 2 alone.
Served(op, k, n) ==
    LET c == FetchClass(op)
    IN  IF n >= MaxPages THEN << >>
        ELSE IF op = "icm_update_intercoms" /\ k = 2
        THEN IF n = 1 THEN <<FetchItem(c, JInt(2), "a")>> ELSE << >>
        ELSE IF n = 1 THEN <<FetchItem(c, JInt(1), "a")>>
        ELSE IF n = 2 THEN <<FetchItem(c, JInt(1), "b"), FetchItem(c, JInt(2), "a")>>
        ELSE <<FetchItem(c, JInt(2), "a")>>

\* The answer of the properties endpoint: category -> list.
ServedProperties(cat) ==
    IF cat = "apartment" THEN <<FetchItem("IcmProperty", JInt(1), "a")>>
                         ELSE <<FetchItem("IcmProperty", JInt(2), "a")>>

\* The loop body of an operation applied to the stores for one page of
\* loop k (the property of icm_update_intercoms).
MergePage(ss, op, k, n) ==
    LET st0 == [s  |-> [container |-> ss[StoreOf(op)].container,
                        heap |-> ss[StoreOf(op)].heap, retrieved |-> << >>],
                rs |-> [container |-> ss["iot_relays"].container,
                        heap |-> ss["iot_relays"].heap, retrieved |-> << >>]]
        st  == IF op = "icm_update_properties"
               THEN fetch_merge(op, fetch_merge(op, st0, ServedProperties("apartment"),
                                                "apartment", k),
                                ServedProperties("parking"), "parking", k)
               ELSE fetch_merge(op, st0, Served(op, k, n), NONE, k)
        s1  == put_store(ss, StoreOf(op), st.s)
    IN  IF op = "iot_update_intercoms" THEN put_store(s1, "iot_relays", st.rs) ELSE s1

\* The request loops an operation starts when called on the stores ss:
\* one per known property for icm_update_intercoms without a property id,
\* else one.
LoopKeysKnownOnly(ss, op, arg) ==
    IF op = "icm_update_intercoms"
    THEN (IF arg = NoProperty THEN PropertyIds ELSE {arg})
         \cap DOMAIN ss["icm_properties"].container
    ELSE {arg}
LoopKeys(ss, op, arg) ==
    IF op = "icm_update_intercoms" /\ arg = NoProperty
    THEN DOMAIN ss["icm_properties"].container
    ELSE {arg}

\* The page a loop asks for after page n: icm_update_properties makes one
\* request, a paginated loop goes on until a falsy page.
AfterPage(op, k, n) ==
    IF op = "icm_update_properties" \/ Served(op, k, n) = << >> THEN 0 ELSE n + 1

\* The arguments an operation may be called with.
ConcArgs(op) ==
    IF op = "icm_update_intercoms" THEN PropertyIds \cup {NoProperty} ELSE {NoProperty}

IdleTask == [op |-> NONE, arg |-> NoProperty, pc |-> "idle", loops |-> << >>,
             overlap |-> FALSE]

InitConcurrent ==
    /\ InitApi /\ InitUpd /\ InitMerge /\ InitPage /\ InitRec /\ InitFan /\ InitUnlock
    /\ InitReq /\ InitFetched /\ InitRestConc
    /\ stores \in {[n \in StoreNames |-> EmptyStore],
                   put_store([n \in StoreNames |-> EmptyStore], "icm_properties",
                             merge_category(
                                 [container |-> << >>, heap |-> << >>, retrieved |-> << >>],
                                 ServedProperties("apartment"), "apartment"))}
    /\ sop = NONE
    /\ ctasks = [t \in Tasks |-> IdleTask]
    /\ clog = << >>
    /\ cstart = stores

\* create_task(operation(arg)): the task is scheduled; its coroutine has not
\* run yet.  overlap records that the other task was unfinished then.
ConcCreate ==
    \E t \in Tasks, op \in PluralFetches :
      \E arg \in ConcArgs(op) :
        /\ ctasks[t].pc = "idle"
        /\ ctasks' = [ctasks EXCEPT ![t] =
                        [op |-> op, arg |-> arg, pc |-> "created", loops |-> << >>,
                         overlap |-> \E u \in Tasks \ {t} :
                                        ctasks[u].pc \in {"created", "running"}]]
        /\ UNCHANGED <<apiVars, stores, sop, clog, cstart>>
        /\ UNCHANGED <<updVars, mergeVars, pageVars, recVars, fanVars, unlockVars>>
        /\ UNCHANGED <<reqVars, fetchVars, restConc>>

\* A task takes its first step: the operation issues the first request of
\* each of its loops (none: it returns at once).
ConcCall ==
    \E t \in Tasks :
        LET keys == LoopKeys(stores, ctasks[t].op, ctasks[t].arg)
        IN  /\ ctasks[t].pc = "created"
            /\ ctasks' = [ctasks EXCEPT ![t].pc = IF keys = {} THEN "done" ELSE "running",
                                        ![t].loops = [k \in keys |-> 1]]
            /\ request_counter' = request_counter + Cardinality(keys)
            /\ UNCHANGED <<authorization, stores, sop, clog, cstart>>
            /\ UNCHANGED <<updVars, mergeVars, pageVars, recVars, fanVars, unlockVars>>
            /\ UNCHANGED <<reqVars, fetchVars, restConc>>

\* The response to the request of one loop of a task arrives: the page is
\* merged in one step and the next page is asked for, or the page is
\* falsy and the loop ends; the task is done with its last loop.
ConcPage ==
    \E t \in Tasks :
      /\ ctasks[t].pc = "running"
      /\ \E k \in DOMAIN ctasks[t].loops :
          LET op == ctasks[t].op
              n  == ctasks[t].loops[k]
              m  == AfterPage(op, k, n)
              lp == [ctasks[t].loops EXCEPT ![k] = m]
              merged == op = "icm_update_properties" \/ Served(op, k, n) # << >>
          IN  /\ n > 0
              /\ stores' = IF merged THEN MergePage(stores, op, k, n) ELSE stores
              /\ clog' = IF merged THEN Append(clog, <<t, k, n>>) ELSE clog
              /\ ctasks' = [ctasks EXCEPT ![t].loops = lp,
                                          ![t].pc = IF \A j \in DOMAIN lp : lp[j] = 0
                                                    THEN "done" ELSE "running"]
              /\ request_counter' = request_counter + (IF m > 0 THEN 1 ELSE 0)
      /\ UNCHANGED <<authorization, sop, cstart>>
      /\ UNCHANGED <<updVars, mergeVars, pageVars, recVars, fanVars, unlockVars>>
      /\ UNCHANGED <<reqVars, fetchVars, restConc>>

NextConcurrent ==
    \/ ConcCreate
    \/ ConcCall
    \/ ConcPage

SpecConcurrent == InitConcurrent /\ [][NextConcurrent]_vars

\* The ids of the payloads of page n of loop k of an operation.
PageIds(op, k, n) ==
    IF op = "icm_update_properties"
    THEN ListIds("IcmProperty", ServedProperties("apartment"))
         \cup ListIds("IcmProperty", ServedProperties("parking"))
    ELSE ListIds(FetchClass(op), Served(op, k, n))

\* The ids a task has seen in the pages it merged so far.
SeenBy(t) ==
    UNION {PageIds(ctasks[t].op, clog[j][2], clog[j][3]) :
              j \in {j \in DOMAIN clog : clog[j][1] = t}}

\* C23: under every interleaving of the page merges of two concurrent
\* fetches (of the same kind included), an id of a store keeps the object
\* it was first given, every object created is held under exactly one id,
\* its own, and every id a fetch has seen is in the store of the fetch.
C23_MergeAtomicUnderInterleaving ==
    /\ [][\A n \in StoreNames : \A i \in DOMAIN stores[n].container :
             /\ i \in DOMAIN stores'[n].container
             /\ stores'[n].container[i] = stores[n].container[i]]_vars
    /\ [](\A n \in StoreNames : \A r \in 1..Len(stores[n].heap) :
             /\ Cardinality({i \in DOMAIN stores[n].container :
                                stores[n].container[i] = r}) = 1
             /\ stores[n].container[stores[n].heap[r].id] = r)
    /\ [](\A t \in Tasks : ctasks[t].pc \in {"running", "done"} =>
             SeenBy(t) \subseteq DOMAIN stores[StoreOf(ctasks[t].op)].container)

\* C23 witness: two camera fetches ran to the end with their page merges
\* interleaved (first pages of both, then second pages of both); the store
\* holds entities 1 and 2, one object each.
C23_SameKindInterleaved ==
    /\ ctasks[1].op = "iot_update_cameras" /\ ctasks[2].op = "iot_update_cameras"
    /\ ctasks[1].pc = "done" /\ ctasks[2].pc = "done"
    /\ Len(clog) >= 4
    /\ clog[1] = <<1, NoProperty, 1>> /\ clog[2] = <<2, NoProperty, 1>>
    /\ clog[3] = <<1, NoProperty, 2>> /\ clog[4] = <<2, NoProperty, 2>>
    /\ ctasks[2].loops[NoProperty] = 0 /\ ctasks[1].loops[NoProperty] = 0
    /\ DOMAIN stores["iot_cameras"].container = {1, 2}
    /\ Len(stores["iot_cameras"].heap) = 2

\* An operation run alone to its end on the stores ss: each of its loops,
\* page after page.
RECURSIVE RunLoop(_, _, _, _)
RunLoop(ss, op, k, n) ==
    IF op = "icm_update_properties" THEN MergePage(ss, op, k, n)
    ELSE IF Served(op, k, n) = << >> THEN ss
    ELSE RunLoop(MergePage(ss, op, k, n), op, k, n + 1)

RECURSIVE RunLoops(_, _, _)
RunLoops(ss, op, keys) ==
    IF keys = {} THEN ss
    ELSE LET k == CHOOSE k \in keys : TRUE
         IN  RunLoops(RunLoop(ss, op, k, 1), op, keys \ {k})

RunAlone(ss, op, arg) == RunLoops(ss, op, LoopKeys(ss, op, arg))

\* The stores after task t ran alone and then task u ran alone.
InOrder(t, u) ==
    RunAlone(RunAlone(cstart, ctasks[t].op, ctasks[t].arg), ctasks[u].op, ctasks[u].arg)

\* The stores the loop body of an operation writes.
Writes(op) ==
    {StoreOf(op)} \cup (IF op = "iot_update_intercoms" THEN {"iot_relays"} ELSE {})

\* The two tasks were unfinished at the same time and ran different operations.
DifferentKinds ==
    /\ \A t \in Tasks : ctasks[t].pc # "idle"
    /\ \E t \in Tasks : ctasks[t].overlap
    /\ ctasks[1].op # ctasks[2].op

\* One task fetches the properties, the other the intercoms of every known
\* property.
PropertiesAndFanOut ==
    \E t \in Tasks, u \in Tasks :
        /\ ctasks[t].op = "icm_update_properties"
        /\ ctasks[u].op = "icm_update_intercoms" /\ ctasks[u].arg = NoProperty

\* C24 as claimed: two concurrent fetches of different kinds write no
\* store in common, and once both are done every store is what either
\* serial order of the two leaves, whatever the interleaving was.
C24_DifferentKindsNeverContend ==
    DifferentKinds =>
        /\ Writes(ctasks[1].op) \cap Writes(ctasks[2].op) = {}
        /\ (\A t \in Tasks : ctasks[t].pc = "done") =>
                stores = InOrder(1, 2) /\ stores = InOrder(2, 1)

\* C24: two concurrent fetches of different kinds write no store in common,
\* and unless they are icm_update_properties and icm_update_intercoms
\* without a property id (which reads the property store to choose its
\* requests), every store is in the end what either serial order leaves.
C24_ContendOnlyOverKnownProperties ==
    DifferentKinds =>
        /\ Writes(ctasks[1].op) \cap Writes(ctasks[2].op) = {}
        /\ ((\A t \in Tasks : ctasks[t].pc = "done") /\ ~PropertiesAndFanOut) =>
                stores = InOrder(1, 2) /\ stores = InOrder(2, 1)

\* C24 witness: the properties fetch and the intercoms fetch of property 1
\* overlapped, the intercoms pages merged around the properties answer.
C24_PropertiesBesideIntercoms ==
    /\ DifferentKinds
    /\ \A t \in Tasks : ctasks[t].pc = "done"
    /\ ctasks[1].op = "icm_update_properties"
    /\ ctasks[2].op = "icm_update_intercoms" /\ ctasks[2].arg = 1
    /\ Len(clog) = MaxPages
    /\ clog[1][1] = 2 /\ clog[2][1] = 1 /\ clog[3][1] = 2
    /\ DOMAIN stores["icm_properties"].container = {1, 2}
    /\ DOMAIN stores["icm_intercoms"].container = {1, 2}

---------------------------------------------------------------------------
(* The customer devices of the client (specification SpecDevice) *)

\* self.device_id: the given value, or 16 random characters.
device_id == "uid-this"
OtherUid  == "uid-other"

\* A sip_account block with its ex_user and password.
SipAccount(user, pw) == WithKey(Dict(user), "password", pw)

\* A customer device payload.
DeviceData(raw, uid, sip) ==
    WithKey(MkData(raw, "device", ABSENT, sip, NoBlock, "absent", 0, 0), "uid", uid)

DeviceSips ==
    {NoBlock, SipAccount("u1", ABSENT), SipAccount("u1", "pwA"), SipAccount("u2", "pwB")}

DevicePayloads ==
    {DeviceData(JInt(i), u, sp) : i \in Ids, u \in {device_id, OtherUid}, sp \in DeviceSips}
    \cup {DeviceData(JBadStr, device_id, NoBlock)}

\* The answers of the lookup, registration and push token endpoints.
DeviceResponses ==
    {HttpResponse(200, ObjectBody(d), Headers(NONE)) : d \in DevicePayloads}
    \cup {HttpResponse(st, EmptyBody, Headers(NONE)) : st \in {401, 404, 500}}
    \cup {HttpResponse(200, b, Headers(NONE)) : b \in {NotJson, WrongType, ErrorBody}}

\* The body of the sign_in answer: "account" and "customer_devices".
AccountData(raw) == MkData(raw, "account", ABSENT, NoBlock, NoBlock, "absent", 0, 0)
SignInData(acc, devs) == [account |-> acc, customer_devices |-> devs]

SignInDevices ==
    {<< >>,
     <<DeviceData(JInt(1), device_id, SipAccount("u1", ABSENT))>>,
     <<DeviceData(JInt(1), OtherUid, SipAccount("u1", ABSENT)),
       DeviceData(JInt(2), device_id, SipAccount("u1", "pwA"))>>,
     <<DeviceData(JBadStr, device_id, NoBlock),
       DeviceData(JInt(1), device_id, NoBlock)>>}

SignInResponses ==
    {HttpResponse(200, ObjectBody(SignInData(AccountData(raw), devs)), Headers(a)) :
        raw \in {JInt(1), JBadStr}, devs \in SignInDevices, a \in {NONE, "token", "token2"}}
    \cup {HttpResponse(200, ObjectBody([customer_devices |-> << >>]), Headers("token"))}
    \cup {HttpResponse(st, EmptyBody, Headers(NONE)) : st \in {401, 500}}
    \cup {HttpResponse(200, NotJson, Headers("token"))}

\* What a call ends with: the device it returns (0: None), or an exception.
DevPending         == [k |-> "pending", ref |-> 0, exc |-> NONE, msg |-> NONE, status |-> 0]
DevReturn(r)       == [k |-> "result", ref |-> r, exc |-> NONE, msg |-> NONE, status |-> 0]
DevRaise(e, m, st) == [k |-> "exc", ref |-> 0, exc |-> e, msg |-> m, status |-> st]

DeviceNotFound == DevRaise("PikIntercomException", "device by id not found", 0)
NoAuthorizationHeader ==
    DevRaise("PikIntercomException",
             "Could not perform authentication (Authorization header not found)", 0)

\* except aiohttp.ClientResponseError as exc: if exc.status != 404: raise
device_absent_on_any_error(r) == ~r.ok /\ r.exc \in {"ClientResponseError", "ContentTypeError"}
device_absent(r) ==
    ~r.ok /\ r.exc \in {"ClientResponseError", "ContentTypeError"} /\ r.v = 404

\* What make_request raised, as the caller sees it.
DevFailure(r) ==
    DevRaise(r.exc, NONE, IF r.exc \in {"ClientResponseError", "ContentTypeError"}
                          THEN r.v ELSE 0)

\* self.account = None
NoAccount == [id |-> 0, source_data |-> NoData]

NoRead == [user |-> NONE, password |-> NONE]

\* The store as the merge operators take it.
DeviceStore ==
    [container |-> customer_devices.container, heap |-> customer_devices.heap,
     retrieved |-> << >>]

\* for device_data in resp_data.get("customer_devices") or ():
\*     self._deserialize_customer_device(device_data)
RECURSIVE deserialize_devices(_, _)
deserialize_devices(s, dl) ==
    IF dl = << >> THEN [ok |-> TRUE, s |-> s, exc |-> NONE]
    ELSE LET r == deserialize_customer_device(s, Head(dl))
         IN  IF r.ok THEN deserialize_devices(r.s, Tail(dl)) ELSE r

\* PikIntercomAPI.customer_device: the first device, in insertion order,
\* whose uid is the client's device id (0: None).
customer_device ==
    LET M == {r \in 1..Len(customer_devices.heap) :
                 customer_devices.heap[r].uid = device_id}
    IN  IF M = {} THEN 0 ELSE CHOOSE r \in M : \A q \in M : r <= q

\* ObjectWithSIP.sip_password of an entity whose sip_user is user: the
\* devices are gone through in insertion order.
RECURSIVE sip_password_from(_, _)
sip_password_from(user, r) ==
    IF r > Len(customer_devices.heap) THEN NONE
    ELSE IF /\ customer_devices.heap[r].sip_user = user
            /\ customer_devices.heap[r].sip_password # NONE
         THEN customer_devices.heap[r].sip_password
         ELSE sip_password_from(user, r + 1)

sip_password_of_first(user) ==
    LET M == {r \in 1..Len(customer_devices.heap) :
                 customer_devices.heap[r].sip_user = user}
    IN  IF user \in {NONE, FALSY} \/ M = {} THEN NONE
        ELSE customer_devices.heap[CHOOSE r \in M : \A q \in M : r <= q].sip_password
sip_password(user) ==
    IF user \in {NONE, FALSY} THEN NONE ELSE sip_password_from(user, 1)

\* The sip_user an intercom may have.
SipUsers == {NONE, FALSY, "u1", "u2"}

InitDevice ==
    /\ InitUpd /\ InitMerge /\ InitPage /\ InitRec /\ InitFan /\ InitUnlock
    /\ InitReq /\ InitFetched /\ InitStored /\ InitRestDev
    /\ authorization = NONE
    /\ request_counter = 0
    /\ customer_devices = EmptyStore
    /\ account = NoAccount
    /\ dop = NONE
    /\ dpc = "idle"
    /\ dsent = << >>
    /\ dresp = << >>
    /\ dout = DevPending
    /\ dread = NoRead

DevIdle == dpc \in {"idle", "returned", "raised"}

DevUnchanged ==
    UNCHANGED <<updVars, mergeVars, pageVars, recVars, fanVars, unlockVars, reqVars,
                fetchVars, storeVars, restDev>>

\* A call ends.
DevEnd(out) ==
    /\ dout' = out
    /\ dpc' = IF out.k = "result" THEN "returned" ELSE "raised"

\* authenticate is called: the sign_in request (authenticated=False).
SignIn ==
    /\ DevIdle
    /\ request_counter < MaxRequests
    /\ request_counter' = request_counter + 1
    /\ dop' = "authenticate"
    /\ dpc' = "sign_in"
    /\ dsent' = <<"sign_in">>
    /\ dresp' = << >>
    /\ dout' = DevPending
    /\ UNCHANGED <<authorization, customer_devices, account, dread>>
    /\ DevUnchanged

\* The sign_in answer: a failure is raised; without the Authorization
\* header the call raises; else the token is stored, then the account is
\* created or updated from resp_data["account"], then the devices are merged.
SignInRespond ==
    /\ dpc = "sign_in"
    /\ \E resp \in SignInResponses :
        LET r   == make_request_result(resp)
            acc == r.v.d.account
            i   == get_id_from_data("PikAccount", acc)
            m   == deserialize_devices(DeviceStore, r.v.d.customer_devices)
        IN  /\ dresp' = Append(dresp, resp)
            /\ IF ~r.ok
               THEN /\ DevEnd(DevFailure(r))
                    /\ UNCHANGED <<authorization, account, customer_devices>>
               ELSE IF resp.headers.authorization = NONE
               THEN /\ DevEnd(NoAuthorizationHeader)
                    /\ UNCHANGED <<authorization, account, customer_devices>>
               ELSE /\ authorization' = resp.headers.authorization
                    /\ IF ~HasKey(r.v.d, "account")
                       THEN /\ DevEnd(DevRaise("KeyError", NONE, 0))
                            /\ UNCHANGED <<account, customer_devices>>
                       ELSE IF account = NoAccount /\ ~i.ok
                       THEN /\ DevEnd(DevRaise(i.exc, NONE, 0))
                            /\ UNCHANGED <<account, customer_devices>>
                       ELSE /\ account' = IF account = NoAccount
                                          THEN [id |-> i.v, source_data |-> acc]
                                          ELSE [account EXCEPT !.source_data = acc]
                            /\ customer_devices' = [container |-> m.s.container,
                                                    heap |-> m.s.heap]
                            /\ DevEnd(IF m.ok THEN DevReturn(0)
                                              ELSE DevRaise(m.exc, NONE, 0))
    /\ UNCHANGED <<request_counter, dop, dsent, dread>>
    /\ DevUnchanged

\* update_customer_device is called: the lookup request, unless there is
\* no token.
UpdateCustomerDevice ==
    /\ DevIdle
    /\ dop' = "update_customer_device"
    /\ dresp' = << >>
    /\ IF ~is_authenticated
       THEN /\ DevEnd(DevRaise(NotAuthenticated.exc, NotAuthenticated.msg, 0))
            /\ dsent' = << >>
            /\ UNCHANGED request_counter
       ELSE /\ request_counter < MaxRequests
            /\ request_counter' = request_counter + 1
            /\ dsent' = <<"lookup">>
            /\ dpc' = "lookup"
            /\ dout' = DevPending
    /\ UNCHANGED <<authorization, customer_devices, account, dread>>
    /\ DevUnchanged

\* set_customer_device_push_token is called: the device of this client is
\* looked for, then the PATCH request is issued.
SetCustomerDevicePushToken ==
    /\ DevIdle
    /\ dop' = "set_customer_device_push_token"
    /\ dresp' = << >>
    /\ IF customer_device = 0
       THEN /\ DevEnd(DeviceNotFound)
            /\ dsent' = << >>
            /\ UNCHANGED request_counter
       ELSE IF ~is_authenticated
       THEN /\ DevEnd(DevRaise(NotAuthenticated.exc, NotAuthenticated.msg, 0))
            /\ dsent' = << >>
            /\ UNCHANGED request_counter
       ELSE /\ request_counter < MaxRequests
            /\ request_counter' = request_counter + 1
            /\ dsent' = <<"push">>
            /\ dpc' = "push"
            /\ dout' = DevPending
    /\ UNCHANGED <<authorization, customer_devices, account, dread>>
    /\ DevUnchanged

\* The answer to the lookup, the registration or the push token request.
\* A 404 of the lookup is followed by the registration request; any other
\* failure is raised; the device of a lookup or registration answer is
\* merged and returned.
DeviceRespond ==
    /\ dpc \in {"lookup", "register", "push"}
    /\ \E resp \in DeviceResponses :
        LET r == make_request_result(resp)
            m == deserialize_customer_device(DeviceStore, r.v.d)
        IN  /\ dresp' = Append(dresp, resp)
            /\ IF dpc = "lookup" /\ device_absent(r)
               THEN /\ request_counter < MaxRequests
                    /\ request_counter' = request_counter + 1
                    /\ dsent' = Append(dsent, "register")
                    /\ dpc' = "register"
                    /\ dout' = DevPending
                    /\ UNCHANGED customer_devices
               ELSE IF ~r.ok
               THEN /\ DevEnd(DevFailure(r))
                    /\ UNCHANGED <<request_counter, dsent, customer_devices>>
               ELSE IF dpc = "push"
               THEN /\ DevEnd(DevReturn(0))
                    /\ UNCHANGED <<request_counter, dsent, customer_devices>>
               ELSE /\ customer_devices' = [container |-> m.s.container, heap |-> m.s.heap]
                    /\ DevEnd(IF m.ok THEN DevReturn(m.s.container[PyIntOfKey(r.v.d.id).v])
                                      ELSE DevRaise(m.exc, NONE, 0))
                    /\ UNCHANGED <<request_counter, dsent>>
    /\ UNCHANGED <<authorization, account, dop, dread>>
    /\ DevUnchanged

\* The sip_password of an intercom is read between two calls.
ReadSipPassword ==
    /\ DevIdle
    /\ \E u \in SipUsers : dread' = [user |-> u, password |-> sip_password(u)]
    /\ dop' = "sip_password"
    /\ UNCHANGED <<authorization, request_counter, customer_devices, account>>
    /\ UNCHANGED <<dpc, dsent, dresp, dout>>
    /\ DevUnchanged

NextDevice ==
    \/ SignIn
    \/ SignInRespond
    \/ UpdateCustomerDevice
    \/ SetCustomerDevicePushToken
    \/ DeviceRespond
    \/ ReadSipPassword

SpecDevice == InitDevice /\ [][NextDevice]_vars

\* The devices merged from a payload whose uid is the client's device id.
ThisClientsDevices ==
    {r \in 1..Len(customer_devices.heap) :
        GetKey(customer_devices.heap[r].source_data, "uid") = device_id}

\* C25: once a device payload whose uid is the client's device id has been
\* merged, customer_device returns such a device and
\* set_customer_device_push_token does not fail with "device by id not found".
C25_ThisDeviceIsFound ==
    ThisClientsDevices # {} =>
        /\ customer_device \in ThisClientsDevices
        /\ ~(dop = "set_customer_device_push_token" /\ dout = DeviceNotFound)

\* The first answer of the running call was a failure of status st.
LookupFailedWith(st) ==
    /\ Len(dresp) >= 1
    /\ dresp[1].status = st

\* C26: in update_customer_device a 404 of the lookup is followed by one
\* registration request and nothing else, and the device of its answer is
\* the one merged and returned; any other non-2xx status of the lookup is
\* raised with that status after the lookup request alone.
C26_LookupNotFoundRegisters ==
    (dop = "update_customer_device" /\ dresp # << >>) =>
        /\ LookupFailedWith(404) =>
              /\ dsent = <<"lookup", "register">>
              /\ dpc \in {"register", "returned", "raised"}
              /\ dpc = "register" <=> Len(dresp) = 1
              /\ dpc # "register" => Len(dresp) = 2
              /\ dpc = "returned" =>
                    /\ dout.ref \in 1..Len(customer_devices.heap)
                    /\ customer_devices.heap[dout.ref].source_data = dresp[2].body.d
                    /\ customer_devices.container[customer_devices.heap[dout.ref].id]
                          = dout.ref
        /\ (dresp[1].status \notin 200..299 /\ ~LookupFailedWith(404)) =>
              /\ dsent = <<"lookup">>
              /\ Len(dresp) = 1
              /\ dpc = "raised"
              /\ dout = DevRaise("ClientResponseError", NONE, dresp[1].status)

\* C26 witness: the lookup answered 404, the registration answered with
\* device 2, which is now in the store and was returned.
C26_RegisteredAfterNotFound ==
    /\ dop = "update_customer_device"
    /\ dpc = "returned"
    /\ LookupFailedWith(404)
    /\ dsent = <<"lookup", "register">>
    /\ dresp[2].status = 200
    /\ 2 \in DOMAIN customer_devices.container
    /\ dout.ref = customer_devices.container[2]

\* The devices whose SIP user is user, in insertion order.
SipMatches(user) ==
    {r \in 1..Len(customer_devices.heap) : customer_devices.heap[r].sip_user = user}

\* C27 as claimed: a read of sip_password gives the password of the first
\* device of the current store whose SIP user is the entity's, none when
\* there is no such device or the entity has no SIP user.
C27_PasswordOfFirstMatch ==
    dop = "sip_password" =>
        dread.password =
            IF dread.user \in {NONE, FALSY} \/ SipMatches(dread.user) = {} THEN NONE
            ELSE customer_devices.heap[
                     CHOOSE r \in SipMatches(dread.user) :
                         \A q \in SipMatches(dread.user) : r <= q].sip_password

\* C27: a read of sip_password gives the password of the first device of
\* the current store whose SIP user is the entity's and which has a
\* password, none when there is no such device or the entity has no SIP user.
C27_FirstPasswordAmongMatches ==
    dop = "sip_password" =>
        LET M == {r \in SipMatches(dread.user) :
                     customer_devices.heap[r].sip_password # NONE}
        IN  dread.password =
                IF dread.user \in {NONE, FALSY} \/ M = {} THEN NONE
                ELSE customer_devices.heap[CHOOSE r \in M : \A q \in M : r <= q].sip_password

\* C27 witness: the first device of the user has no password, the second
\* has one, and the read gave the second's.
C27_SkippedDeviceWithoutPassword ==
    /\ dop = "sip_password"
    /\ dread.user = "u1"
    /\ Len(customer_devices.heap) = 2
    /\ customer_devices.heap[1].sip_user = "u1"
    /\ customer_devices.heap[1].sip_password = NONE
    /\ customer_devices.heap[2].sip_user = "u1"
    /\ dread.password = "pwA"

\* C33: the authorization token changes only inside authenticate; whenever
\* authenticate raises, the token and the account are what they were before
\* the call; and a token once set is never reset to unset.
C33_TokenChangesOnlyOnSuccess ==
    [][/\ authorization' # authorization => dpc = "sign_in"
       /\ (dpc = "sign_in" /\ dpc' = "raised") =>
             authorization' = authorization /\ account' = account
       /\ authorization # NONE => authorization' # NONE]_vars

---------------------------------------------------------------------------
(* The single-item fetch (specification SpecSingle) *)

\* The payloads the intercom endpoint answers with.
ItemPayloads ==
    {FetchItem("IcmIntercom", raw, n) :
        raw \in {JInt(1), JInt(2), JBadStr, JAbsent}, n \in {"a", "b"}}

ItemResponses ==
    {HttpResponse(200, ObjectBody(d), Headers(NONE)) : d \in ItemPayloads}
    \cup {HttpResponse(st, EmptyBody, Headers(NONE)) : st \in {404, 500}}

NoItemResponse == HttpResponse(0, EmptyBody, Headers(NONE))

InitSingle ==
    /\ InitApi /\ InitUpd /\ InitMerge /\ InitPage /\ InitRec /\ InitFan /\ InitUnlock
    /\ InitReq /\ InitFetched /\ InitRestItem
    /\ stores = [n \in StoreNames |-> EmptyStore]
    /\ sop = NONE
    /\ item_arg = NoItem
    /\ item_pc = "idle"
    /\ item_sent = 0
    /\ item_resp = NoItemResponse
    /\ item_out = DevPending

\* update_single_item_from_request is called on the ICM intercoms, by
\* icm_update_intercom(intercom_id) or without an item_id: its request.
SingleCall ==
    /\ item_pc # "awaiting"
    /\ request_counter < MaxRequests
    /\ request_counter' = request_counter + 1
    /\ \E i \in Ids \cup {NoItem} : item_arg' = i
    /\ item_pc' = "awaiting"
    /\ item_sent' = 1
    /\ item_resp' = NoItemResponse
    /\ item_out' = DevPending
    /\ UNCHANGED <<authorization, stores, sop>>
    /\ UNCHANGED <<updVars, mergeVars, pageVars, recVars, fanVars, unlockVars>>
    /\ UNCHANGED <<reqVars, fetchVars, restItem>>

\* The response arrives: a failure is raised, else the item is created or
\* updated and returned.
SingleRespond ==
    /\ item_pc = "awaiting"
    /\ \E resp \in ItemResponses :
        LET r == make_request_result(resp)
            u == update_single_item_from_request(store_state("icm_intercoms"),
                                                 "IcmIntercom", item_arg, r.v.d)
        IN  /\ item_resp' = resp
            /\ IF ~r.ok
               THEN /\ item_out' = DevFailure(r)
                    /\ item_pc' = "raised"
                    /\ UNCHANGED stores
               ELSE /\ stores' = put_store(stores, "icm_intercoms", u.s)
                    /\ item_out' = IF u.ok THEN DevReturn(u.ref)
                                           ELSE DevRaise(u.exc, NONE, 0)
                    /\ item_pc' = IF u.ok THEN "returned" ELSE "raised"
    /\ UNCHANGED <<apiVars, sop, item_arg, item_sent>>
    /\ UNCHANGED <<updVars, mergeVars, pageVars, recVars, fanVars, unlockVars>>
    /\ UNCHANGED <<reqVars, fetchVars, restItem>>

NextSingle ==
    \/ SingleCall
    \/ SingleRespond

SpecSingle == InitSingle /\ [][NextSingle]_vars

\* The step in which a single-item fetch gets a decoded payload.
SingleAnswered ==
    /\ item_pc = "awaiting"
    /\ item_pc' # "awaiting"
    /\ make_request_result(item_resp').ok

\* C28: a single-item fetch that got a payload has issued one request; the
\* id is the item_id argument when given, else the payload's; if the store
\* had no entity under it one is created and inserted under it, else the
\* entity under it is updated and stays the same object; that entity is
\* returned.
C28_SingleItemCreateOrUpdate ==
    [][SingleAnswered =>
        LET d   == item_resp'.body.d
            st  == stores["icm_intercoms"]
            st2 == stores'["icm_intercoms"]
            i   == IF item_arg # NoItem THEN Ok(item_arg)
                   ELSE get_id_from_data("IcmIntercom", d)
        IN  /\ item_sent' = 1
            /\ i.ok =>
                  /\ item_pc' = "returned"
                  /\ i.v \in DOMAIN st2.container
                  /\ item_out'.ref = st2.container[i.v]
                  /\ st2.heap[st2.container[i.v]].source_data = d
                  /\ IF i.v \in DOMAIN st.container
                     THEN /\ st2.container = st.container
                          /\ Len(st2.heap) = Len(st.heap)
                     ELSE /\ st2.container[i.v] = Len(st.heap) + 1
                          /\ Len(st2.heap) = Len(st.heap) + 1
            /\ ~i.ok => item_pc' = "raised" /\ st2 = st]_vars

---------------------------------------------------------------------------
(* get_last_call_session (specification SpecLast) *)

CallSessionStores == <<"iot_call_sessions", "icm_call_sessions">>

\* A call session payload with its created_at (0: the key is missing).
SessionItem(c, i, t) ==
    MkData(JInt(i), "a", ABSENT, NoBlock, NoBlock,
           IF c = "IcmCallSession" THEN "dict" ELSE "absent", t, 0)

\* What get_last_call_session gives: a session of a store, None, or the
\* exception of a comparison.
NoLast           == [k |-> "none", store |-> NONE, ref |-> 0, exc |-> NONE]
LastOf(n, r)     == [k |-> "session", store |-> n, ref |-> r, exc |-> NONE]
LastRaise(e)     == [k |-> "exc", store |-> NONE, ref |-> 0, exc |-> e]

\* created_at of a stored session (0: None).
CreatedAt(l) == stores[l.store].heap[l.ref].created_at

\* call_session.created_at > last_call_session.created_at: TypeError when
\* either is None.
later_than(a, b) ==
    IF a = 0 \/ b = 0 THEN Raise("TypeError") ELSE Ok(a > b)

\* for call_session in iterator: ... (r: the next value of the iterator)
RECURSIVE compare_sessions(_, _, _)
compare_sessions(n, r, last) ==
    IF r > Len(stores[n].heap) THEN last
    ELSE LET c == later_than(stores[n].heap[r].created_at, CreatedAt(last))
         IN  IF ~c.ok THEN LastRaise(c.exc)
             ELSE compare_sessions(n, r + 1, IF c.v THEN LastOf(n, r) ELSE last)

\* One round of "for source in (...)": the first value is taken when
\* nothing is held yet, the others are compared.
scan_source(n, last) ==
    IF last.k = "exc" THEN last
    ELSE IF last.k = "none"
    THEN IF Len(stores[n].heap) = 0 THEN last
         ELSE compare_sessions(n, 2, LastOf(n, 1))
    ELSE compare_sessions(n, 1, last)

get_last_call_session ==
    scan_source(CallSessionStores[2], scan_source(CallSessionStores[1], NoLast))

InitLastSpec ==
    /\ InitApi /\ InitUpd /\ InitMerge /\ InitPage /\ InitRec /\ InitFan /\ InitUnlock
    /\ InitReq /\ InitFetched /\ InitRestLast
    /\ stores = [n \in StoreNames |-> EmptyStore]
    /\ sop = NONE
    /\ last_call_session = NoLast

\* A call session fetch merges a session into its store.
LastFetch ==
    /\ \E op \in {"iot_update_call_sessions", "icm_update_call_sessions"},
          i \in Ids, t \in 0..MaxTime :
        /\ sop' = op
        /\ stores' = put_store(stores, StoreOf(op),
                        merge_list(store_state(StoreOf(op)), FetchClass(op),
                                   <<SessionItem(FetchClass(op), i, t)>>, NoProperty))
    /\ UNCHANGED <<apiVars, last_call_session>>
    /\ UNCHANGED <<updVars, mergeVars, pageVars, recVars, fanVars, unlockVars>>
    /\ UNCHANGED <<reqVars, fetchVars, restLast>>

\* get_last_call_session is called.
GetLastCallSession ==
    /\ sop' = "get_last_call_session"
    /\ last_call_session' = get_last_call_session
    /\ UNCHANGED <<apiVars, stores>>
    /\ UNCHANGED <<updVars, mergeVars, pageVars, recVars, fanVars, unlockVars>>
    /\ UNCHANGED <<reqVars, fetchVars, restLast>>

NextLast ==
    \/ LastFetch
    \/ GetLastCallSession

SpecLast == InitLastSpec /\ [][NextLast]_vars

\* The sessions of both stores.
AllSessions ==
    UNION {{LastOf(n, r) : r \in 1..Len(stores[n].heap)} :
              n \in {"iot_call_sessions", "icm_call_sessions"}}

\* C29: get_last_call_session gives None exactly when both stores are
\* empty, and otherwise a session of one of them whose created_at is not
\* before that of any session of either store.
C29_LastIsMostRecent ==
    sop = "get_last_call_session" =>
        IF AllSessions = {} THEN last_call_session = NoLast
        ELSE /\ last_call_session \in AllSessions
             /\ \A l \in AllSessions : CreatedAt(l) <= CreatedAt(last_call_session)

---------------------------------------------------------------------------
(* fetch_last_active_session beside the stores (specification SpecActiveFetch) *)

\* The call session stores as earlier fetches left them: each empty or with
\* one session.
StoredSessions(c) == {<< >>} \cup {<<SessionItem(c, 1, t)>> : t \in 1..MaxTime}

ActiveFetchStores ==
    {put_store(put_store([n \in StoreNames |-> EmptyStore], "iot_call_sessions",
                         merge_list([container |-> << >>, heap |-> << >>,
                                     retrieved |-> << >>],
                                    "IotCallSession", iotl, NoProperty)),
               "icm_call_sessions",
               merge_list([container |-> << >>, heap |-> << >>, retrieved |-> << >>],
                          "IcmCallSession", icml, NoProperty)) :
        iotl \in StoredSessions("IotCallSession"),
        icml \in StoredSessions("IcmCallSession")}

InitActiveFetch ==
    /\ InitApi /\ InitUpd /\ InitMerge /\ InitPage /\ InitRec /\ InitFan /\ InitUnlock
    /\ InitReq /\ InitFetched /\ InitRestLast
    /\ stores \in ActiveFetchStores
    /\ sop = NONE
    /\ last_call_session = NoLast

\* What the active-session endpoints answer here: no session, a failure, a
\* body without id, or a session newer than every stored one.
ActiveResponses ==
    {Response(404, EmptyBody), Response(500, EmptyBody), Response(200, ObjectBody(NoData)),
     Response(200, ObjectBody(MkData(JInt(1), ABSENT, ABSENT, NoBlock, NoBlock, "absent",
                                     MaxTime + 1, 0)))}

\* The stores after the coroutine of backend b ended with res: the session
\* it returns is built by create_from_dict and handed to the caller; no
\* container is assigned to.
active_session_stored(ss, b, res) ==
    LET n == IF b = "iot" THEN "iot_call_sessions" ELSE "icm_call_sessions"
    IN  IF res.k = "session"
        THEN [ss EXCEPT ![n] = [container |-> (res.s.id :> Len(ss[n].heap) + 1) @@ ss[n].container,
                                heap |-> Append(ss[n].heap, res.s)]]
        ELSE ss
active_session_stores(ss, b, res) == ss

\* fetch_last_active_session runs: both coroutines issue their request, are
\* answered, and the results are reconciled.
LastActiveFetch ==
    /\ request_counter + 2 <= MaxRequests
    /\ \E iot_resp \in ActiveResponses, icm_resp \in ActiveResponses :
        LET iot == fetch_last_active("iot", iot_resp)
            icm == fetch_last_active("icm", icm_resp)
        IN  /\ outcome' = reconcile(iot, icm)
            /\ stores' = active_session_stores(
                              active_session_stores(stores, "iot", iot), "icm", icm)
    /\ sop' = "fetch_last_active_session"
    /\ request_counter' = request_counter + 2
    /\ UNCHANGED <<authorization, last_call_session, pc, tasks>>
    /\ UNCHANGED <<updVars, mergeVars, pageVars, fanVars, unlockVars>>
    /\ UNCHANGED <<reqVars, fetchVars, restLast>>

NextActiveFetch ==
    \/ LastActiveFetch
    \/ GetLastCallSession

SpecActiveFetch == InitActiveFetch /\ [][NextActiveFetch]_vars

\* C37: fetch_last_active_session and the two coroutines it runs leave
\* every store as it was, whether a session, none or a failure comes out;
\* the call session stores hold no active session, and what
\* get_last_call_session gives is a session of those stores.
C37_ActiveFetchWritesNoStore ==
    /\ [][sop' = "fetch_last_active_session" => stores' = stores]_vars
    /\ [](\A l \in AllSessions :
             stores[l.store].heap[l.ref].cls \in {"IotCallSession", "IcmCallSession"})
    /\ []((sop = "get_last_call_session" /\ last_call_session.k = "session")
             => last_call_session \in AllSessions)

\* C37 witness: fetch_last_active_session returned an active session newer
\* than every stored session, and get_last_call_session, called after it,
\* gave an older session of the stores.
C37_ActiveSessionNotAmongLast ==
    /\ outcome.k = "session"
    /\ sop = "get_last_call_session"
    /\ last_call_session.k = "session"
    /\ CreatedAt(last_call_session) < outcome.s.created_at

---------------------------------------------------------------------------
(* IotActiveCallSession.unlock (specification SpecActive) *)

\* The ids of data["target_relays"] of an active call session payload.
TargetLists == UNION {[1..n -> Ids] : n \in 0..MaxLen}

\* The relay stores iot_update_intercoms may have left, in insertion order.
RelayStoreOf(dl) ==
    LET s == merge_relays([container |-> << >>, heap |-> << >>, retrieved |-> << >>],
                          dl, NONE)
    IN  [container |-> s.container, heap |-> s.heap]

RelayStores ==
    {RelayStoreOf(dl) :
        dl \in {<< >>, <<RelayData(JInt(1))>>, <<RelayData(JInt(2))>>,
                <<RelayData(JInt(1)), RelayData(JInt(2))>>,
                <<RelayData(JInt(2)), RelayData(JInt(1))>>}}

NoTargetRelays == URaise("PikIntercomException", "no target relays provided")
ErrorsWhileUnlocking ==
    URaise("PikIntercomException", "Error(s) occurred while unlocking")
EmptyWait == URaise("ValueError", "Set of Tasks/Futures is empty.")

\* key in relay_ids, relay_ids being a generator: its values are consumed
\* up to and including the first one equal to key.
RECURSIVE key_in_relay_ids(_, _)
key_in_relay_ids(key, rest) ==
    IF rest = << >> THEN [found |-> FALSE, rest |-> << >>]
    ELSE IF Head(rest) = key THEN [found |-> TRUE, rest |-> Tail(rest)]
    ELSE key_in_relay_ids(key, Tail(rest))

\* target_relay_ids is a generator over data["target_relays"] when that
\* list is truthy, else the tuple (): in the model, the ids still to be
\* produced.
\* [relay for key, relay in self.api.iot_relays.items() if key in relay_ids]
\* from the r-th item of the store on: the ids of the relays listed, and
\* what is left of the generator.
RECURSIVE read_target_relays(_, _, _)
read_target_relays(r, rest, acc) ==
    IF r > Len(iot_relays.heap) THEN [list |-> acc, rest |-> rest]
    ELSE LET c == key_in_relay_ids(iot_relays.heap[r].id, rest)
         IN  read_target_relays(r + 1, c.rest,
                                IF c.found THEN Append(acc, iot_relays.heap[r].id) ELSE acc)

\* IotActiveCallSession.target_relays, one read with rest left to produce.
target_relays(rest) == read_target_relays(1, rest, << >>)

InitActive ==
    /\ InitUpd /\ InitMerge /\ InitPage /\ InitRec /\ InitFan
    /\ InitReq /\ InitStored /\ InitRestAct
    /\ authorization \in {NONE, "token"}
    /\ request_counter = 0
    /\ fop = NONE /\ garg = NoProperty /\ gpc = "idle"
    /\ gret = << >> /\ gtouched = {} /\ gout = FanPending
    /\ iot_relays \in RelayStores
    /\ upc = "idle" /\ utasks = << >> /\ ufailed = << >>
    /\ usent = << >> /\ uresp = NONE /\ uout = UPending
    /\ target_relays_data \in TargetLists
    /\ target_relay_ids = target_relays_data

\* A caller reads session.target_relays before the unlock.
ActiveRead ==
    /\ upc = "idle"
    /\ target_relay_ids' = target_relays(target_relay_ids).rest
    /\ UNCHANGED <<target_relays_data, apiVars, unlockVars>>
    /\ UNCHANGED <<updVars, mergeVars, pageVars, recVars, fanVars>>
    /\ UNCHANGED <<reqVars, fetchVars, storeVars, restAct>>

\* IotActiveCallSession.unlock up to its await: target_relays is read for
\* the test, then again for the tasks; asyncio.wait raises ValueError for
\* an empty list.
ActiveUnlock ==
    /\ upc = "idle"
    /\ LET r1 == target_relays(target_relay_ids)
           r2 == target_relays(r1.rest)
       IN  IF r1.list = << >>
           THEN /\ upc' = "raised"
                /\ uout' = NoTargetRelays
                /\ target_relay_ids' = r1.rest
                /\ UNCHANGED utasks
           ELSE IF r2.list = << >>
           THEN /\ upc' = "raised"
                /\ uout' = EmptyWait
                /\ target_relay_ids' = r2.rest
                /\ UNCHANGED utasks
           ELSE /\ upc' = "waiting"
                /\ uout' = uout
                /\ target_relay_ids' = r2.rest
                /\ utasks' = [r \in {r2.list[k] : k \in 1..Len(r2.list)} |-> NewRelayTask]
    /\ UNCHANGED <<target_relays_data, apiVars, ufailed, usent, uresp>>
    /\ UNCHANGED <<updVars, mergeVars, pageVars, recVars, fanVars>>
    /\ UNCHANGED <<reqVars, fetchVars, storeVars, restAct>>

\* asyncio.wait(..., return_when=ALL_COMPLETED) is over: the failures of
\* the tasks are collected and raised as one, or the unlock returns.
ActiveUnlockResume ==
    /\ upc = "waiting"
    /\ \A r \in DOMAIN utasks : utasks[r].st = "done"
    /\ IF \E r \in DOMAIN utasks : utasks[r].err # NoError
       THEN upc' = "raised" /\ uout' = ErrorsWhileUnlocking
       ELSE upc' = "returned" /\ uout' = UOk
    /\ UNCHANGED <<target_relay_ids, target_relays_data, apiVars>>
    /\ UNCHANGED <<utasks, ufailed, usent, uresp>>
    /\ UNCHANGED <<updVars, mergeVars, pageVars, recVars, fanVars>>
    /\ UNCHANGED <<reqVars, fetchVars, storeVars, restAct>>

NextActive ==
    \/ ActiveRead
    \/ ActiveUnlock
    \/ RelayStart
    \/ RelayRespond
    \/ ActiveUnlockResume

SpecActive == InitActive /\ [][NextActive]_vars

\* The target relay ids of the session's payload.
TargetIds == {target_relays_data[k] : k \in 1..Len(target_relays_data)}

\* C30: an unlock of an active call session whose target relays are all in
\* the relay store ends with one finished attempt per target relay, raises
\* the combined failure exactly when an attempt failed, and "no target
\* relays provided" is raised only when no target relay is in the store.
C30_ActiveUnlockReachesEveryTarget ==
    upc \in {"returned", "raised"} =>
        /\ (TargetIds # {} /\ TargetIds \subseteq DOMAIN iot_relays.container) =>
              /\ DOMAIN utasks = TargetIds
              /\ \A r \in DOMAIN utasks : utasks[r].st = "done"
              /\ upc = "raised" <=> ufailed # << >>
              /\ upc = "raised" => uout = ErrorsWhileUnlocking
        /\ uout = NoTargetRelays => TargetIds \cap DOMAIN iot_relays.container = {}

\* The relays of the store whose id is among the session's target relay
\* ids, in store order.
StoredTargets ==
    SelectSeq([r \in 1..Len(iot_relays.heap) |-> iot_relays.heap[r].id],
              LAMBDA i : i \in TargetIds)

\* C34: a read of target_relays is a pure lookup: it returns all relays of
\* the store whose id is among the session's target relay ids, and the read
\* after it returns the same list.
C34_TargetRelaysIsPureLookup ==
    LET first  == target_relays(target_relay_ids)
        second == target_relays(first.rest)
    IN  /\ first.list = StoredTargets
        /\ second.list = first.list

---------------------------------------------------------------------------
(* The request counter under concurrent callers (specification SpecCounter) *)

\* The tasks of the event loop that use the client.
Callers == {1, 2}

\* What a caller runs: authenticate (make_request with authenticated=False),
\* an operation whose make_request needs the token, or get_snapshot of an
\* object.
CounterOperations == {"authenticate", "iot_update_cameras", "get_snapshot"}

\* snapshot_url of the object whose snapshot is asked for.
SnapshotUrls == {NONE, "url"}

PhotoUrlEmpty == URaise("PikIntercomException", "Photo URL is empty")

IdleCaller == [op |-> NONE, pc |-> "idle", got |-> 0, out |-> UPending]

\* increment_request_counter: no await between the read and the write.
increment_request_counter_stale(c) == c
increment_request_counter(c) == c + 1

InitCounter ==
    /\ InitUpd /\ InitMerge /\ InitPage /\ InitRec /\ InitFan /\ InitUnlock
    /\ InitReq /\ InitFetched /\ InitStored /\ InitRestCnt
    /\ authorization \in {NONE, "token"}
    /\ request_counter = 0
    /\ rcalls = [t \in Callers |-> IdleCaller]
    /\ rlog = << >>

CounterUnchanged ==
    /\ UNCHANGED <<updVars, mergeVars, pageVars, recVars, fanVars, unlockVars>>
    /\ UNCHANGED <<reqVars, fetchVars, storeVars, restCnt>>

\* A caller runs make_request or get_snapshot up to its await: the
\* precondition (token present, snapshot URL not empty), then the counter.
CounterCall ==
    \E t \in Callers, op \in CounterOperations, snapshot_url \in SnapshotUrls :
        /\ rcalls[t].pc # "awaiting"
        /\ op # "get_snapshot" => snapshot_url = NONE
        /\ IF op = "get_snapshot" /\ snapshot_url = NONE
           THEN /\ rcalls' = [rcalls EXCEPT ![t] =
                       [op |-> op, pc |-> "raised", got |-> 0, out |-> PhotoUrlEmpty]]
                /\ UNCHANGED <<request_counter, rlog>>
           ELSE IF op # "get_snapshot" /\ TokenMissing(op)
           THEN /\ rcalls' = [rcalls EXCEPT ![t] =
                       [op |-> op, pc |-> "raised", got |-> 0, out |-> NotAuthenticated]]
                /\ UNCHANGED <<request_counter, rlog>>
           ELSE /\ request_counter < MaxRequests
                /\ request_counter' = increment_request_counter(request_counter)
                /\ rcalls' = [rcalls EXCEPT ![t] =
                       [op |-> op, pc |-> "awaiting", got |-> request_counter',
                        out |-> UPending]]
                /\ rlog' = Append(rlog, [caller |-> t, got |-> request_counter'])
        /\ UNCHANGED authorization
        /\ CounterUnchanged

\* The response to a caller's HTTP call arrives; authenticate stores the
\* token of a successful response.
CounterRespond ==
    \E t \in Callers, resp \in RequestResponses :
        /\ rcalls[t].pc = "awaiting"
        /\ LET r  == make_request_result(resp)
               ok == IF rcalls[t].op = "get_snapshot" THEN resp.status = 200 ELSE r.ok
           IN  rcalls' = [rcalls EXCEPT ![t].pc = IF ok THEN "returned" ELSE "raised",
                                        ![t].out = IF ok THEN UOk
                                                   ELSE URaise("PikIntercomException", NONE)]
        /\ authorization' = authorization_after(rcalls[t].op, resp)
        /\ UNCHANGED <<request_counter, rlog>>
        /\ CounterUnchanged

NextCounter ==
    \/ CounterCall
    \/ CounterRespond

SpecCounter == InitCounter /\ [][NextCounter]_vars

\* Caller t issues a request in this step.
Issues(t) == rcalls[t].pc # "awaiting" /\ rcalls'[t].pc = "awaiting"

\* Caller t is turned down by a precondition in this step.
Rejected(t) ==
    /\ rcalls'[t] # rcalls[t]
    /\ rcalls[t].pc # "awaiting" /\ rcalls'[t].pc = "raised"
    /\ rcalls'[t].out \in {NotAuthenticated, PhotoUrlEmpty}

\* C32: under every interleaving of the callers, the request counter starts
\* at 0, grows by exactly one with each request that passes its precondition
\* (snapshot retrievals included) and gives that request the new value,
\* stays as it is when a request is rejected and in every other step, and
\* no two requests obtain the same value.
C32_CounterCountsRequests ==
    /\ request_counter = 0
    /\ [][/\ request_counter' >= request_counter
          /\ \A t \in Callers :
                /\ Issues(t) => /\ request_counter' = request_counter + 1
                                /\ rcalls'[t].got = request_counter'
                /\ Rejected(t) => request_counter' = request_counter
          /\ (\A t \in Callers : ~Issues(t)) => request_counter' = request_counter]_vars
    /\ [](\A i, k \in 1..Len(rlog) : i # k => rlog[i].got # rlog[k].got)

\* C32 witness: the requests of both callers are in flight at once, the
\* second caller's issued first, after a request of the first caller was
\* rejected for the missing token.
C32_TwoRequestsInFlight ==
    /\ authorization = NONE
    /\ rcalls[2].op = "authenticate" /\ rcalls[2].pc = "awaiting" /\ rcalls[2].got = 1
    /\ rcalls[1].op = "get_snapshot" /\ rcalls[1].pc = "awaiting" /\ rcalls[1].got = 2
    /\ rlog = <<[caller |-> 2, got |-> 1], [caller |-> 1, got |-> 2]>>

===========================================================================
